---- MODULE Spec2Model ----
(***************************************************************************)
(* Task-manager REST API (express + mongoose + jsonwebtoken).              *)
(*                                                                         *)
(* State: the two collections (users, tasks), the ObjectId generators, the *)
(* wall clock that jsonwebtoken reads for the iat claim, the bearer tokens *)
(* handed out to clients so far, and the last request with its response.   *)
(* One action per route; a protected route is the auth middleware followed *)
(* by the route's handler, each handler a whole request.                   *)
(*                                                                         *)
(* Where requests interleave, a request is the steps between its awaits:   *)
(* inflight holds each request being handled with the documents it has     *)
(* loaded, versions the __v of the stored user documents, which mongoose   *)
(* tests and increments when save() writes an array.                       *)
(***************************************************************************)
EXTENDS Integers, Sequences, FiniteSets, TLC

VARIABLES users, tasks, userCount, taskCount, now, issued, req, resp,
          inflight, versions

vars  == <<users, tasks, userCount, taskCount, now, issued, req, resp, inflight, versions>>
store == <<users, tasks, userCount, taskCount, issued>>

(* ------------------------------ bounds --------------------------------- *)
MaxUsers == 2
MaxTasks == 2
MaxTokens == 2
MaxTime == 1
MaxQueryTasks == 5
MaxInflight == 2
MaxVersion == 4

UserIds == 1..MaxUsers
Slots == 1..MaxInflight
TaskIds == 1..MaxTasks

(* --------------------------- program constants ------------------------- *)
PasswordMinLength == 7
BcryptRounds == 8

(* ------------------------------ strings -------------------------------- *)
\* The request strings the model feeds the API, with the facts about them
\* that the validators read.
Emails == {"a@x.io", "A@x.io", "b@x.io", "not-an-email"}
Passwords == {"hunter22", "hunter23", "short1", "MyPassword1"}
Names == {"Ann"}

\* trim: true, lowercase: true on the email path
EmailSetter(e) == IF e = "A@x.io" THEN "a@x.io" ELSE e

\* validator.isEmail
IsEmail(e) == e \in {"a@x.io", "A@x.io", "b@x.io"}

StrLen(s) ==
    CASE s = "hunter22" -> 8
      [] s = "hunter23" -> 8
      [] s = "short1" -> 6
      [] s = "MyPassword1" -> 11
      [] OTHER -> 0

\* value.toLowerCase().includes('password')
ContainsPassword(s) == s = "MyPassword1"

(* ------------------------------ passwords ------------------------------ *)
\* A password value: the text and how many times bcrypt.hash was applied.
Plain(s) == [text |-> s, hashes |-> 0, rounds |-> 0]

\* bcrypt.hash(value, 8)
BcryptHash(p) == [text |-> p.text, hashes |-> p.hashes + 1, rounds |-> BcryptRounds]

\* bcrypt.compare(pass, stored): stored is the hash of pass
BcryptCompare(s, stored) == stored.hashes = 1 /\ stored.text = s

(* ------------------------------- tokens -------------------------------- *)
\* A JWT string: the payload {_id, iat} and whether the HS256 signature was
\* made with JWT_SECRET. sig = "none" is a string that is no JWT.
NoToken == [uid |-> 0, iat |-> 0, sig |-> "none"]

\* jwt.sign({_id}, JWT_SECRET): iat is the clock in seconds; equal payloads
\* give equal strings.
JwtSign(id) == [uid |-> id, iat |-> now, sig |-> "good"]

\* jwt.verify(token, JWT_SECRET): throws unless a JWT signed with the secret
JwtVerifies(tok) == tok.sig = "good"
JwtDecoded(tok) == [_id |-> tok.uid, iat |-> tok.iat]

\* Tokens a client can present: the ones the API handed out, a JWT for an
\* existing id signed with another key, and a string that is no JWT.
ForgedTokens == {[uid |-> u, iat |-> 0, sig |-> "bad"] : u \in {1}}
ClientTokens == issued \cup ForgedTokens \cup {NoToken}

(* ------------------------------ requests ------------------------------- *)
NoHeader == [scheme |-> "absent", tok |-> NoToken]
Bearer(t) == [scheme |-> "Bearer ", tok |-> t]
Headers == {NoHeader} \cup {Bearer(t) : t \in ClientTokens}

\* A JSON body: the keys present and their values ("" / FALSE / 0 if absent);
\* file is the name of the avatarUpload part of a multipart body.
NoBody == [keys |-> {}, name |-> "", email |-> "", password |-> "", age |-> 0,
           description |-> "", completed |-> FALSE, owner |-> 0, file |-> ""]

\* The query string of GET /tasks: completed as sent ("" if absent), sortBy as
\* its segments between "_" (<< >> if absent), limit and skip as their
\* characters (<< >> if absent).
NoQuery == [completed |-> "", sortBy |-> << >>, limit |-> << >>, skip |-> << >>]

Request(route, header, body, id, query) ==
    [route |-> route, header |-> header, body |-> body, id |-> id, query |-> query]

NoReq == Request("", NoHeader, NoBody, 0, NoQuery)

(* ------------------------------ responses ------------------------------ *)
NoPublicUser == [_id |-> 0, name |-> "", email |-> "", age |-> 0]
NoTask == [_id |-> 0, description |-> "", completed |-> FALSE, owner |-> 0]

\* A response body: error is the "error" key or the serialised error, text a
\* plain-text body, user / newToken / task / tasks the JSON members.
EmptyBody == [error |-> "", text |-> "", user |-> NoPublicUser,
              newToken |-> NoToken, task |-> NoTask, tasks |-> <<>>]

\* handled: the route handler behind the auth middleware ran (next() called).
\* sends: how many times the request called res.send.
Response(status, body, handled) ==
    [status |-> status, body |-> body, handled |-> handled, sends |-> 1]

NoResp == [status |-> 0, body |-> EmptyBody, handled |-> FALSE, sends |-> 0]

\* A thrown error object
Err(class, message) == [class |-> class, message |-> message]

\* A faulty variant: the handler answers { error: e.message }
SendErrorMessage(e) == [EmptyBody EXCEPT !.error = e.message]

\* res.send(e): JSON.stringify of the error object. The message of a plain
\* Error is not enumerable, so it serialises to {}; mongoose and driver
\* errors carry enumerable members.
SendError(e) ==
    IF e.class = "Error" THEN EmptyBody
    ELSE [EmptyBody EXCEPT !.error = e.class]

(* -------------------------- requests in flight ------------------------- *)
NoUser == [name |-> "", email |-> "", password |-> [text |-> "", hashes |-> 0, rounds |-> 0],
           age |-> 0, tokens |-> << >>, avatar |-> 0]
NoTaskDoc == [description |-> "", completed |-> FALSE, owner |-> 0]

\* A request being handled: pc is the await it stands at ("idle" when the
\* slot holds none, "done" once answered), user / token / doc what the auth
\* middleware or findByCredentials loaded, ver the __v of doc, task the task
\* loaded, n the deletedCount of deleteMany, resp the response once sent,
\* overlap whether another request was in flight during this one, lostAt
\* the await at which a crash of the process ended it (pc "lost").
Idle == [pc |-> "idle", req |-> NoReq, user |-> 0, token |-> NoToken, doc |-> NoUser,
         ver |-> 0, task |-> NoTaskDoc, n |-> 0, resp |-> NoResp, overlap |-> FALSE,
         lostAt |-> ""]

\* The slots with a request in flight
InFlight == {s \in Slots : inflight[s].pc \notin {"idle", "done"}}

(* ------------------------------ documents ------------------------------ *)
\* A faulty variant: toJSON leaves the password in the copy
ToJSONWithPassword(id, doc) ==
    [_id |-> id, name |-> doc.name, email |-> doc.email, age |-> doc.age,
     password |-> doc.password]

\* userSchema.methods.toJSON: the document without password, tokens, avatar
ToJSON(id, doc) == [_id |-> id, name |-> doc.name, email |-> doc.email, age |-> doc.age]

TaskJSON(id) == [_id |-> id, description |-> tasks[id].description,
                 completed |-> tasks[id].completed, owner |-> tasks[id].owner]

(* ------------------------------- auth ---------------------------------- *)
\* req.header('Authorization').replace('Bearer ', '')
HeaderToken(h) == h.tok

\* A faulty variant: the lookup is by _id alone
FindByIdOnly(coll, id, tok) == IF id \in DOMAIN coll THEN id ELSE 0

\* A faulty variant: the filter is dropped, findOne returns the first user
FindFirstUser(coll, id, tok) ==
    IF DOMAIN coll # {} THEN CHOOSE u \in DOMAIN coll : \A v \in DOMAIN coll : u <= v ELSE 0

\* User.findOne({ _id: decoded._id, 'tokens.token': token }) on the
\* collection coll
FindByIdAndToken(coll, id, tok) ==
    IF id \in DOMAIN coll /\ \E i \in 1..Len(coll[id].tokens) : coll[id].tokens[i] = tok
    THEN id ELSE 0

\* A faulty variant: the catch block tells a revoked token from a bad one
AuthFailureByMode(h) ==
    IF JwtVerifies(h.tok)
    THEN Response(401, [EmptyBody EXCEPT !.error = "Token revoked"], FALSE)
    ELSE Response(401, [EmptyBody EXCEPT !.error = "Authentication failed"], FALSE)

\* The failure response of the middleware's catch block
AuthFailure(h) == Response(401, [EmptyBody EXCEPT !.error = "Authentication failed"], FALSE)

\* The middleware against the collection coll: the user and token it
\* attaches, or the failure
AuthOn(coll, h) ==
    IF h.scheme = "absent" THEN [ok |-> FALSE, user |-> 0, token |-> NoToken]
    ELSE LET token == HeaderToken(h) IN
         IF ~JwtVerifies(token) THEN [ok |-> FALSE, user |-> 0, token |-> NoToken]
         ELSE LET user == FindByIdAndToken(coll, JwtDecoded(token)._id, token) IN
              IF user = 0 THEN [ok |-> FALSE, user |-> 0, token |-> NoToken]
              ELSE [ok |-> TRUE, user |-> user, token |-> token]

Auth(h) == AuthOn(users, h)

(* ------------------------------- Init ---------------------------------- *)
Init ==
    /\ users = << >>
    /\ tasks = << >>
    /\ userCount = 0
    /\ taskCount = 0
    /\ now = 0
    /\ issued = {}
    /\ req = NoReq
    /\ resp = NoResp
    /\ inflight = [s \in Slots |-> Idle]
    /\ versions = << >>

(* ------------------------------ user model ----------------------------- *)
\* new User(body): the schema's setters and defaults
NewUser(b) ==
    [name |-> b.name, email |-> EmailSetter(b.email), password |-> Plain(b.password),
     age |-> 0, tokens |-> << >>, avatar |-> 0]

\* A faulty variant: save() runs no validators
InvalidUserPathsNone(doc) == {}

\* The paths the schema's validators reject (required, isEmail, minlength,
\* the 'password' substring, age >= 0)
InvalidUserPaths(doc) ==
    {p \in {"name"} : doc.name = ""}
    \cup {p \in {"email"} : doc.email = "" \/ ~IsEmail(doc.email)}
    \cup {p \in {"password"} :
            doc.password.hashes = 0
            /\ (StrLen(doc.password.text) < PasswordMinLength
                \/ ContainsPassword(doc.password.text))}
    \cup {p \in {"age"} : doc.age < 0}

\* The unique index on email
EmailTaken(email, self) ==
    \E u \in DOMAIN users : u # self /\ users[u].email = email

\* A faulty variant: the hook saves the password as assigned
PreSaveNoHash(doc, modified) == doc

\* A faulty variant: the hook hashes the password on every save
PreSaveAlways(doc, modified) == [doc EXCEPT !.password = BcryptHash(@)]

\* userSchema.pre('save'): hash the password when it was modified
PreSave(doc, modified) ==
    IF "password" \in modified
    THEN [doc EXCEPT !.password = BcryptHash(@)]
    ELSE doc

\* user.save(): the collection with the document written
SaveUser(coll, id, doc, modified) == (id :> PreSave(doc, modified)) @@ coll

\* A faulty variant: the token is returned but not added to the token set
ConcatTokenDropped(toks, token) == toks

\* generateAuthToken: user.tokens.concat({ token })
ConcatToken(toks, token) == Append(toks, token)

\* A faulty variant: the filter keeps the token used and drops the others
FilterTokensInverted(toks, token) == SelectSeq(toks, LAMBDA t : t = token)

\* router.post('/users/logout'): tokens.filter(t => t.token !== req.token)
FilterTokens(toks, token) == SelectSeq(toks, LAMBDA t : t # token)

\* router.post('/users/logoutAll'): req.user.tokens = []
ClearTokens(toks) == << >>

\* A faulty variant: the hook deletes nothing
DeleteManyNothing(coll, owner) == coll

\* userSchema.pre('remove'): Task.deleteMany({ owner: user._id })
DeleteManyByOwner(coll, owner) ==
    [t \in {x \in DOMAIN coll : coll[x].owner # owner} |-> coll[t]]

\* the removal of the user document itself
RemoveUser(coll, id) == [u \in DOMAIN coll \ {id} |-> coll[u]]

\* User.findOne({ email })
FindByEmail(email) ==
    IF \E u \in DOMAIN users : users[u].email = email
    THEN CHOOSE u \in DOMAIN users : users[u].email = email
    ELSE 0

\* userSchema.statics.findByCredentials: the user, or the error thrown
FindByCredentials(email, pass) ==
    LET user == FindByEmail(email) IN
    IF user = 0
    THEN [user |-> 0, error |-> Err("Error", "Unable to login (email not found)")]
    ELSE IF ~BcryptCompare(pass, users[user].password)
    THEN [user |-> 0, error |-> Err("Error", "Unable to login (password is incorrect)")]
    ELSE [user |-> user, error |-> Err("", "")]

(* ----------------------------- the middleware -------------------------- *)
\* A protected route: auth, then the handler with req.user and req.token
Protected(r, Handler(_, _)) ==
    /\ req' = r
    /\ now' = now
    /\ UNCHANGED <<inflight, versions>>
    /\ LET a == Auth(r.header) IN
       IF a.ok THEN Handler(a.user, a.token)
       ELSE /\ resp' = AuthFailure(r.header)
            /\ UNCHANGED store

(* ------------------------------ user routes ---------------------------- *)
RegisterBodies ==
    {[NoBody EXCEPT !.keys = {"name", "email", "password"},
                    !.name = n, !.email = e, !.password = p] :
        n \in Names, e \in Emails, p \in Passwords \ {"hunter23"}}
    \cup {[NoBody EXCEPT !.keys = {"email", "password"},
                         !.email = "b@x.io", !.password = "hunter22"]}

\* router.post('/users')
Register(b) ==
    /\ userCount < MaxUsers
    /\ req' = Request("POST /users", NoHeader, b, 0, NoQuery)
    /\ now' = now
    /\ UNCHANGED <<inflight, versions>>
    /\ LET id == userCount + 1
           doc == NewUser(b)
           token == JwtSign(id)
       IN IF InvalidUserPaths(doc) # {}
          THEN /\ resp' = Response(400, SendError(Err("ValidationError", "")), TRUE)
               /\ UNCHANGED store
          ELSE IF EmailTaken(doc.email, id)
          THEN /\ resp' = Response(400, SendError(Err("MongoError", "E11000")), TRUE)
               /\ UNCHANGED store
          ELSE LET created == SaveUser(users, id, doc, {"name", "email", "password"})
                   withToken == [created[id] EXCEPT !.tokens = ConcatToken(@, token)]
               IN /\ users' = SaveUser(created, id, withToken, {"tokens"})
                  /\ userCount' = id
                  /\ issued' = issued \cup {token}
                  /\ resp' = Response(201, [EmptyBody EXCEPT !.user = ToJSON(id, withToken),
                                                             !.newToken = token], TRUE)
                  /\ UNCHANGED <<tasks, taskCount>>

LoginBodies ==
    {[NoBody EXCEPT !.keys = {"email", "password"}, !.email = e, !.password = p] :
        e \in {"a@x.io", "b@x.io"}, p \in {"hunter22", "hunter23"}}

\* router.post('/users/login')
Login(b) ==
    /\ req' = Request("POST /users/login", NoHeader, b, 0, NoQuery)
    /\ now' = now
    /\ UNCHANGED <<inflight, versions>>
    /\ LET found == FindByCredentials(b.email, b.password) IN
       IF found.user = 0
       THEN /\ resp' = Response(400, SendError(found.error), TRUE)
            /\ UNCHANGED store
       ELSE LET id == found.user
                token == JwtSign(id)
                doc == [users[id] EXCEPT !.tokens = ConcatToken(@, token)]
            IN /\ Len(users[id].tokens) < MaxTokens
               /\ users' = SaveUser(users, id, doc, {"tokens"})
               /\ issued' = issued \cup {token}
               /\ resp' = Response(200, [EmptyBody EXCEPT !.user = ToJSON(id, doc),
                                                          !.newToken = token], TRUE)
               /\ UNCHANGED <<tasks, userCount, taskCount>>

\* router.post('/users/logout')
LogoutHandler(user, token) ==
    LET doc == [users[user] EXCEPT !.tokens = FilterTokens(@, token)] IN
    /\ users' = SaveUser(users, user, doc, {"tokens"})
    /\ resp' = Response(200, [EmptyBody EXCEPT !.text = "You have been succesfully logged out"], TRUE)
    /\ UNCHANGED <<tasks, userCount, taskCount, issued>>

Logout(h) ==
    Protected(Request("POST /users/logout", h, NoBody, 0, NoQuery), LogoutHandler)

\* router.post('/users/logoutAll')
LogoutAllHandler(user, token) ==
    LET doc == [users[user] EXCEPT !.tokens = ClearTokens(@)] IN
    /\ users' = SaveUser(users, user, doc, {"tokens"})
    /\ resp' = Response(200, [EmptyBody EXCEPT !.text = "Succesfully logged out of all sessions."], TRUE)
    /\ UNCHANGED <<tasks, userCount, taskCount, issued>>

LogoutAll(h) ==
    Protected(Request("POST /users/logoutAll", h, NoBody, 0, NoQuery), LogoutAllHandler)

\* router.get('/users/me')
GetMeHandler(user, token) ==
    /\ resp' = Response(200, [EmptyBody EXCEPT !.user = ToJSON(user, users[user])], TRUE)
    /\ UNCHANGED store

GetMe(h) ==
    Protected(Request("GET /users/me", h, NoBody, 0, NoQuery), GetMeHandler)

\* router.delete('/users/me'): req.user.remove() runs the pre('remove') hook,
\* then deletes the user document
DeleteMeHandler(user, token) ==
    /\ tasks' = DeleteManyByOwner(tasks, user)
    /\ users' = RemoveUser(users, user)
    /\ resp' = Response(200, [EmptyBody EXCEPT !.user = ToJSON(user, users[user])], TRUE)
    /\ UNCHANGED <<userCount, taskCount, issued>>

DeleteMe(h) ==
    Protected(Request("DELETE /users/me", h, NoBody, 0, NoQuery), DeleteMeHandler)

\* A faulty variant: updates.some(...) in place of updates.every(...)
IsValidOperationSome(updates, allowed) == \E key \in updates : key \in allowed

\* updates.every(key => allowedUpdates.includes(key)), in both PATCH routes
IsValidOperation(updates, allowed) == \A key \in updates : key \in allowed

\* router.patch('/users/me'): allowedUpdates
AllowedUserUpdates == {"name", "email", "password", "age"}

\* updates.forEach(update => user[update] = req.body[update]), through the
\* schema's setters; a tokens key carries the empty array
ApplyUserUpdates(doc, b) ==
    [name |-> IF "name" \in b.keys THEN b.name ELSE doc.name,
     email |-> IF "email" \in b.keys THEN EmailSetter(b.email) ELSE doc.email,
     password |-> IF "password" \in b.keys THEN Plain(b.password) ELSE doc.password,
     age |-> IF "age" \in b.keys THEN b.age ELSE doc.age,
     tokens |-> IF "tokens" \in b.keys THEN << >> ELSE doc.tokens,
     avatar |-> doc.avatar]

\* user.isModified(path): the paths whose value the assignments changed
ModifiedPaths(old, new) ==
    {p \in {"name", "email", "password", "age", "tokens", "avatar"} : new[p] # old[p]}

PatchMeBodies ==
    {[NoBody EXCEPT !.keys = {"name"}, !.name = "Bob"],
     [NoBody EXCEPT !.keys = {"email"}, !.email = "b@x.io"],
     [NoBody EXCEPT !.keys = {"password"}, !.password = "hunter23"],
     [NoBody EXCEPT !.keys = {"name", "password"}, !.name = "Bob", !.password = "short1"],
     [NoBody EXCEPT !.keys = {"name", "age"}, !.name = "Bob", !.age = -1],
     [NoBody EXCEPT !.keys = {"name", "tokens"}, !.name = "Bob"]}

\* router.patch('/users/me')
PatchMeHandler(b, user) ==
    IF ~IsValidOperation(b.keys, AllowedUserUpdates)
    THEN /\ resp' = Response(400, [EmptyBody EXCEPT !.error =
                        "You are trying to update a User property that is not allowed or doesn't exist"], TRUE)
         /\ UNCHANGED store
    ELSE LET doc == ApplyUserUpdates(users[user], b)
             modified == ModifiedPaths(users[user], doc)
         IN IF InvalidUserPaths(doc) # {}
            THEN /\ resp' = Response(400, SendError(Err("ValidationError", "")), TRUE)
                 /\ UNCHANGED store
            ELSE IF EmailTaken(doc.email, user)
            THEN /\ resp' = Response(400, SendError(Err("MongoError", "E11000")), TRUE)
                 /\ UNCHANGED store
            ELSE /\ users' = SaveUser(users, user, doc, modified)
                 /\ resp' = Response(200, [EmptyBody EXCEPT !.user =
                                ToJSON(user, PreSave(doc, modified))], TRUE)
                 /\ UNCHANGED <<tasks, userCount, taskCount, issued>>

PatchMe(h, b) ==
    Protected(Request("PATCH /users/me", h, b, 0, NoQuery),
              LAMBDA user, token : PatchMeHandler(b, user))

\* The avatarUpload parts the model sends: an image, a file with another
\* extension, an image above the size limit
Files == {"me.png", "cv.pdf", "huge.png"}

\* multer: fileFilter on the original name, then limits.fileSize; the error
\* message, "" when the file is accepted
UploadError(f) ==
    CASE f = "cv.pdf" -> "File must be a jpg, jpeg, or png."
      [] f = "huge.png" -> "File too large"
      [] OTHER -> ""

\* sharp(...).resize({ width: 250, height: 250 }).png().toBuffer(): the
\* stored avatar, 0 standing for no avatar
SharpPng(f) == 1

\* router.post('/users/me/avatar')
UploadAvatarHandler(b, user) ==
    IF UploadError(b.file) # ""
    THEN /\ resp' = Response(400, [EmptyBody EXCEPT !.error = UploadError(b.file)], TRUE)
         /\ UNCHANGED store
    ELSE LET doc == [users[user] EXCEPT !.avatar = SharpPng(b.file)] IN
         /\ users' = SaveUser(users, user, doc, ModifiedPaths(users[user], doc))
         /\ resp' = Response(200, [EmptyBody EXCEPT !.text = "Avatar image uploaded"], TRUE)
         /\ UNCHANGED <<tasks, userCount, taskCount, issued>>

UploadAvatar(h, f) ==
    LET b == [NoBody EXCEPT !.keys = {"avatarUpload"}, !.file = f] IN
    Protected(Request("POST /users/me/avatar", h, b, 0, NoQuery),
              LAMBDA user, token : UploadAvatarHandler(b, user))

\* A faulty variant: the route flips the avatar between absent and present
ClearAvatarToggle(doc) == [doc EXCEPT !.avatar = 1 - @]

\* req.user.avatar = undefined
ClearAvatar(doc) == [doc EXCEPT !.avatar = 0]

\* router.delete('/users/me/avatar')
DeleteAvatarHandler(user, token) ==
    LET doc == ClearAvatar(users[user]) IN
    /\ users' = SaveUser(users, user, doc, ModifiedPaths(users[user], doc))
    /\ resp' = Response(200, [EmptyBody EXCEPT !.text = "Successfully deleted your avatar"], TRUE)
    /\ UNCHANGED <<tasks, userCount, taskCount, issued>>

DeleteAvatar(h) ==
    Protected(Request("DELETE /users/me/avatar", h, NoBody, 0, NoQuery), DeleteAvatarHandler)

(* ------------------------------ task model ----------------------------- *)
\* A faulty variant: the body is spread last, so its owner key wins
NewTaskBodyLast(b, owner) ==
    [description |-> b.description,
     completed |-> IF "completed" \in b.keys THEN b.completed ELSE FALSE,
     owner |-> IF "owner" \in b.keys THEN b.owner ELSE owner]

\* new Task({...req.body, owner: req.user._id}): the owner key of the spread
\* body is overwritten; completed defaults to false
NewTask(b, owner) ==
    [description |-> b.description,
     completed |-> IF "completed" \in b.keys THEN b.completed ELSE FALSE,
     owner |-> owner]

\* description is required
InvalidTaskPaths(doc) == {p \in {"description"} : doc.description = ""}

\* A faulty variant: the lookup is by _id alone
FindTaskByIdOnly(id, owner) == IF id \in DOMAIN tasks THEN id ELSE 0

\* Task.findOne({ _id, owner })
FindTask(id, owner) ==
    IF id \in DOMAIN tasks /\ tasks[id].owner = owner THEN id ELSE 0

\* router.patch('/tasks/:id'): allowedUpdates and updates.every(...)
AllowedTaskUpdates == {"description", "completed"}

\* updates.forEach(update => task[update] = req.body[update])
ApplyTaskUpdates(doc, b) ==
    [description |-> IF "description" \in b.keys THEN b.description ELSE doc.description,
     completed |-> IF "completed" \in b.keys THEN b.completed ELSE doc.completed,
     owner |-> IF "owner" \in b.keys THEN b.owner ELSE doc.owner]

TaskDocJSON(id, doc) ==
    [_id |-> id, description |-> doc.description, completed |-> doc.completed,
     owner |-> doc.owner]

(* ------------------------------ task routes ---------------------------- *)
CreateTaskBodies ==
    {[NoBody EXCEPT !.keys = {"description"}, !.description = "buy milk"],
     [NoBody EXCEPT !.keys = {"description", "completed"},
                    !.description = "buy milk", !.completed = TRUE],
     [NoBody EXCEPT !.keys = {"description", "owner"},
                    !.description = "buy milk", !.owner = 1],
     [NoBody EXCEPT !.keys = {"completed"}, !.completed = TRUE]}

\* router.post('/tasks')
CreateTaskHandler(b, user) ==
    LET id == taskCount + 1
        doc == NewTask(b, user)
    IN IF InvalidTaskPaths(doc) # {}
       THEN /\ resp' = Response(400, SendError(Err("ValidationError", "")), TRUE)
            /\ UNCHANGED store
       ELSE /\ tasks' = (id :> doc) @@ tasks
            /\ taskCount' = id
            /\ resp' = Response(201, [EmptyBody EXCEPT !.task = TaskDocJSON(id, doc)], TRUE)
            /\ UNCHANGED <<users, userCount, issued>>

CreateTask(h, b) ==
    /\ taskCount < MaxTasks
    /\ Protected(Request("POST /tasks", h, b, 0, NoQuery),
                 LAMBDA user, token : CreateTaskHandler(b, user))

PatchTaskBodies ==
    {[NoBody EXCEPT !.keys = {"completed"}, !.completed = TRUE],
     [NoBody EXCEPT !.keys = {"description"}, !.description = "walk dog"],
     [NoBody EXCEPT !.keys = {"description"}],
     [NoBody EXCEPT !.keys = {"owner"}, !.owner = 1],
     [NoBody EXCEPT !.keys = {"completed", "owner"}, !.completed = TRUE, !.owner = 1]}

\* router.patch('/tasks/:id')
PatchTaskHandler(id, b, user) ==
    IF ~IsValidOperation(b.keys, AllowedTaskUpdates)
    THEN /\ resp' = Response(400, [EmptyBody EXCEPT !.error =
                        "You are trying to update a Task property that is not allowed or doesn't exist"], TRUE)
         /\ UNCHANGED store
    ELSE LET task == FindTask(id, user) IN
         IF task = 0
         THEN /\ resp' = Response(404, [EmptyBody EXCEPT !.error = "User not found"], TRUE)
              /\ UNCHANGED store
         ELSE LET doc == ApplyTaskUpdates(tasks[task], b) IN
              IF InvalidTaskPaths(doc) # {}
              THEN /\ resp' = Response(400, SendError(Err("ValidationError", "")), TRUE)
                   /\ UNCHANGED store
              ELSE /\ tasks' = (task :> doc) @@ tasks
                   /\ resp' = Response(200, [EmptyBody EXCEPT !.task = TaskDocJSON(task, doc)], TRUE)
                   /\ UNCHANGED <<users, userCount, taskCount, issued>>

PatchTask(h, id, b) ==
    Protected(Request("PATCH /tasks/:id", h, b, id, NoQuery),
              LAMBDA user, token : PatchTaskHandler(id, b, user))

\* router.get('/tasks/:id'): when no task matches, the 404 is sent and the
\* handler goes on to res.send(task), which throws, and the catch block
\* sends once more
GetTaskHandler(id, user) ==
    LET task == FindTask(id, user) IN
    /\ resp' = IF task = 0
               THEN [Response(404, EmptyBody, TRUE) EXCEPT !.sends = 3]
               ELSE Response(200, [EmptyBody EXCEPT !.task = TaskJSON(task)], TRUE)
    /\ UNCHANGED store

GetTask(h, id) ==
    Protected(Request("GET /tasks/:id", h, NoBody, id, NoQuery),
              LAMBDA user, token : GetTaskHandler(id, user))

\* router.delete('/tasks/:id'): Task.findOneAndDelete({ _id, owner })
DeleteTaskHandler(id, user) ==
    LET task == FindTask(id, user) IN
    IF task = 0
    THEN /\ resp' = Response(404, EmptyBody, TRUE)
         /\ UNCHANGED store
    ELSE /\ tasks' = [t \in DOMAIN tasks \ {task} |-> tasks[t]]
         /\ resp' = Response(200, [EmptyBody EXCEPT !.task = TaskJSON(task)], TRUE)
         /\ UNCHANGED <<users, userCount, taskCount, issued>>

DeleteTask(h, id) ==
    Protected(Request("DELETE /tasks/:id", h, NoBody, id, NoQuery),
              LAMBDA user, token : DeleteTaskHandler(id, user))

\* The clock jsonwebtoken reads moves on between requests
Tick ==
    /\ now < MaxTime
    /\ now' = now + 1
    /\ UNCHANGED <<users, tasks, userCount, taskCount, issued, req, resp, inflight, versions>>

(* ------------------------------ task query ----------------------------- *)
\* parseInt's result: NaN, or the integer
NaN == [nan |-> TRUE, val |-> 0]
Int_(n) == [nan |-> FALSE, val |-> n]

DigitVal(c) ==
    CASE c = "0" -> 0 [] c = "1" -> 1 [] c = "2" -> 2 [] c = "3" -> 3 [] c = "4" -> 4
      [] c = "5" -> 5 [] c = "6" -> 6 [] c = "7" -> 7 [] c = "8" -> 8 [] c = "9" -> 9
      [] OTHER -> -1

\* parseInt(string) of an unsigned string: the value of its longest prefix of
\* digits, NaN when there is none (and for undefined)
RECURSIVE ParseDigits(_, _, _)
ParseDigits(s, i, acc) ==
    IF i > Len(s) \/ DigitVal(s[i]) < 0
    THEN IF i = 1 THEN NaN ELSE Int_(acc)
    ELSE ParseDigits(s, i + 1, acc * 10 + DigitVal(s[i]))

\* A faulty variant: a string without leading digits parses to 1
ParseIntNaNAsOne(s) ==
    IF s # << >> /\ ParseDigits(s, 1, 0).nan THEN Int_(1) ELSE ParseDigits(s, 1, 0)

ParseInt(s) == ParseDigits(s, 1, 0)

\* if (req.query.completed) match.completed = req.query.completed === 'true'
MatchOf(q) == [has |-> q.completed # "", completed |-> q.completed = "true"]

\* A faulty variant: the direction token is compared without regard to case
SortOfAnyCase(q) ==
    IF q.sortBy = << >> THEN [field |-> "", dir |-> 1]
    ELSE [field |-> q.sortBy[1],
          dir |-> IF Len(q.sortBy) >= 2 /\ q.sortBy[2] \in {"desc", "DESC"} THEN -1 ELSE 1]

\* if (req.query.sortBy) { parts = sortBy.split('_');
\*                         sort[parts[0]] = parts[1] === 'desc' ? -1 : 1 }
SortOf(q) ==
    IF q.sortBy = << >> THEN [field |-> "", dir |-> 1]
    ELSE [field |-> q.sortBy[1],
          dir |-> IF Len(q.sortBy) >= 2 /\ q.sortBy[2] = "desc" THEN -1 ELSE 1]

\* A faulty variant: the match is applied without the owner restriction
MatchingAnyOwner(coll, owner, match) ==
    {t \in DOMAIN coll : match.has => coll[t].completed = match.completed}

\* The tasks populate selects: foreignField owner = localField _id, and match
Matching(coll, owner, match) ==
    {t \in DOMAIN coll :
        /\ coll[t].owner = owner
        /\ match.has => coll[t].completed = match.completed}

\* a sorts strictly before b. Without a sort the store returns documents in
\* insertion order; createdAt grows with insertion; false sorts before true.
Before(coll, a, b, sort) ==
    CASE sort.field = "" -> a < b
      [] sort.field = "createdAt" -> IF sort.dir = 1 THEN a < b ELSE b < a
      [] sort.field = "completed" ->
            IF sort.dir = 1 THEN ~coll[a].completed /\ coll[b].completed
            ELSE coll[a].completed /\ ~coll[b].completed
      [] OTHER -> FALSE

\* The orders the store may return the set S in: documents with equal sort
\* keys come in any order
RECURSIVE Orders(_, _, _)
Orders(coll, S, sort) ==
    IF S = {} THEN {<< >>}
    ELSE UNION {{<<t>> \o rest : rest \in Orders(coll, S \ {t}, sort)} :
                t \in {x \in S : \A y \in S : ~Before(coll, y, x, sort)}}

\* options.skip: NaN and 0 skip nothing
Skip(seq, skip) ==
    IF skip.nan \/ skip.val = 0 THEN seq
    ELSE IF skip.val >= Len(seq) THEN << >>
    ELSE SubSeq(seq, skip.val + 1, Len(seq))

\* options.limit: NaN and 0 mean no limit
Limit(seq, limit) ==
    IF limit.nan \/ limit.val = 0 THEN seq
    ELSE IF limit.val >= Len(seq) THEN seq
    ELSE SubSeq(seq, 1, limit.val)

\* A faulty variant: the limit is applied before the skip
PageLimitFirst(ordered, skip, limit) == Skip(Limit(ordered, limit), skip)

\* The cursor: sort, then skip, then limit
Page(ordered, skip, limit) == Limit(Skip(ordered, skip), limit)

\* user.populate({ path: 'tasks', match, options: { limit, skip, sort } })
Populate(coll, owner, q) ==
    {Page(ordered, ParseInt(q.skip), ParseInt(q.limit)) :
        ordered \in Orders(coll, Matching(coll, owner, MatchOf(q)), SortOf(q))}

\* router.get('/tasks')
GetTasksHandler(q, user) ==
    /\ \E found \in Populate(tasks, user, q) :
          resp' = Response(200, [EmptyBody EXCEPT !.tasks =
                        [i \in 1..Len(found) |-> TaskJSON(found[i])]], TRUE)
    /\ UNCHANGED store

GetTasks(h, q) ==
    Protected(Request("GET /tasks", h, NoBody, 0, q),
              LAMBDA user, token : GetTasksHandler(q, user))

(* --------------------------- specifications --------------------------- *)
\* Sessions: registration, login, the clock, and the user routes.
Next ==
    \/ \E b \in RegisterBodies : Register(b)
    \/ \E b \in LoginBodies : Login(b)
    \/ \E h \in Headers : Logout(h)
    \/ \E h \in Headers : LogoutAll(h)
    \/ \E h \in Headers : GetMe(h)
    \/ \E h \in Headers : DeleteMe(h)
    \/ Tick

Spec == Init /\ [][Next]_vars

\* Tasks: two registered users, each holding the token of its registration,
\* and every protected route.
RegisteredUser(id, email) ==
    [name |-> "Ann", email |-> email, password |-> BcryptHash(Plain("hunter22")),
     age |-> 0, tokens |-> <<[uid |-> id, iat |-> 0, sig |-> "good"]>>, avatar |-> 0]

InitTasks ==
    /\ users = (1 :> RegisteredUser(1, "a@x.io")) @@ (2 :> RegisteredUser(2, "b@x.io"))
    /\ tasks = << >>
    /\ userCount = 2
    /\ taskCount = 0
    /\ now = 0
    /\ issued = {[uid |-> u, iat |-> 0, sig |-> "good"] : u \in {1, 2}}
    /\ req = NoReq
    /\ resp = NoResp
    /\ inflight = [s \in Slots |-> Idle]
    /\ versions = << >>

NextTasks ==
    \/ \E h \in Headers : Logout(h)
    \/ \E h \in Headers : LogoutAll(h)
    \/ \E h \in Headers : GetMe(h)
    \/ \E h \in Headers : DeleteMe(h)
    \/ \E h \in Headers, b \in CreateTaskBodies : CreateTask(h, b)
    \/ \E h \in Headers, id \in TaskIds, b \in PatchTaskBodies : PatchTask(h, id, b)
    \/ \E h \in Headers, id \in TaskIds : GetTask(h, id)
    \/ \E h \in Headers, id \in TaskIds : DeleteTask(h, id)
    \/ \E h \in Headers, q \in {NoQuery} : GetTasks(h, q)

SpecTasks == InitTasks /\ [][NextTasks]_vars

\* Queries: a task collection of up to MaxQueryTasks tasks of the two users,
\* and one GET /tasks request against it.
QueryStores ==
    UNION {[1..n -> [description : {"buy milk"}, completed : BOOLEAN, owner : {1, 2}]] :
            n \in 0..MaxQueryTasks}

Queries ==
    [completed : {"", "true", "false", "yes"},
     sortBy : {<< >>, <<"createdAt", "asc">>, <<"createdAt", "desc">>, <<"createdAt">>,
               <<"createdAt", "DESC">>, <<"completed", "desc">>},
     limit : {<< >>, <<"0">>, <<"1">>, <<"2">>, <<"x">>},
     skip : {<< >>, <<"0">>, <<"2">>, <<"1", "0">>, <<"2", "x">>}]

InitQuery ==
    /\ users = (1 :> RegisteredUser(1, "a@x.io")) @@ (2 :> RegisteredUser(2, "b@x.io"))
    /\ tasks \in QueryStores
    /\ userCount = 2
    /\ taskCount = Len(tasks)
    /\ now = 0
    /\ issued = {[uid |-> u, iat |-> 0, sig |-> "good"] : u \in {1, 2}}
    /\ req = NoReq
    /\ resp = NoResp
    /\ inflight = [s \in Slots |-> Idle]
    /\ versions = << >>

NextQuery ==
    /\ req = NoReq
    /\ \E q \in Queries : GetTasks(Bearer([uid |-> 1, iat |-> 0, sig |-> "good"]), q)

SpecQuery == InitQuery /\ [][NextQuery]_vars

\* Profiles: registration, login and the routes that read or change the
\* caller's own record.
NextProfile ==
    \/ \E b \in RegisterBodies : Register(b)
    \/ \E b \in LoginBodies : Login(b)
    \/ \E h \in Headers : GetMe(h)
    \/ \E h \in Headers, b \in PatchMeBodies : PatchMe(h, b)
    \/ \E h \in Headers, f \in Files : UploadAvatar(h, f)
    \/ \E h \in Headers : DeleteAvatar(h)
    \/ \E h \in Headers : DeleteMe(h)

SpecProfile == Init /\ [][NextProfile]_vars

\* The bodies of PATCH /users/me, with a change of the age alone
RecordBodies == PatchMeBodies \cup {[NoBody EXCEPT !.keys = {"age"}, !.age = 30]}

\* Saves of the record: one registered user, and the routes that save the
\* user document without deleting it.
NextRecord ==
    \/ \E b \in LoginBodies : Login(b)
    \/ \E h \in Headers : Logout(h)
    \/ \E h \in Headers : LogoutAll(h)
    \/ \E h \in Headers, b \in RecordBodies : PatchMe(h, b)
    \/ \E h \in Headers, f \in Files : UploadAvatar(h, f)
    \/ \E h \in Headers : DeleteAvatar(h)
    \/ Tick

(* --------------------- requests as interleaved steps ------------------- *)
\* The request of slot s moves on to its next await
Move(s, rec) ==
    /\ inflight' = [inflight EXCEPT ![s] = rec]
    /\ UNCHANGED <<req, resp, now>>

\* The request of slot s is answered
Answer(s, response) ==
    /\ inflight' = [inflight EXCEPT ![s] =
            [Idle EXCEPT !.pc = "done", !.req = inflight[s].req, !.user = inflight[s].user,
                         !.resp = response, !.overlap = inflight[s].overlap]]
    /\ req' = inflight[s].req
    /\ resp' = response
    /\ now' = now

\* The token the registered user of these specifications holds
RaceToken == [uid |-> 1, iat |-> 0, sig |-> "good"]

RaceRequests ==
    {Request("POST /users/login", NoHeader,
             [NoBody EXCEPT !.keys = {"email", "password"}, !.email = "a@x.io",
                            !.password = "hunter22"], 0, NoQuery),
     Request("POST /tasks", Bearer(RaceToken),
             [NoBody EXCEPT !.keys = {"description"}, !.description = "buy milk"], 0, NoQuery),
     Request("DELETE /users/me", Bearer(RaceToken), NoBody, 0, NoQuery)}
    \cup {Request("PATCH /tasks/:id", Bearer(RaceToken),
                  [NoBody EXCEPT !.keys = {"completed"}, !.completed = TRUE], id, NoQuery) :
            id \in TaskIds}

\* A registration, and logins of the registered user and of the new one
IssueRequests ==
    {Request("POST /users", NoHeader,
             [NoBody EXCEPT !.keys = {"name", "email", "password"}, !.name = "Ann",
                            !.email = "b@x.io", !.password = "hunter22"], 0, NoQuery)}
    \cup {Request("POST /users/login", NoHeader,
                  [NoBody EXCEPT !.keys = {"email", "password"}, !.email = e,
                                 !.password = "hunter22"], 0, NoQuery) :
            e \in {"a@x.io", "b@x.io"}}

\* The requests of the route that are in flight
InFlightOf(route) == {o \in InFlight : inflight[o].req.route = route}

\* express hands the request to the router: the slot takes it up
Receive(s, r) ==
    /\ inflight[s].pc \in {"idle", "done", "lost"}
    /\ r.route = "POST /users/login"
            => \A u \in DOMAIN users :
                    Len(users[u].tokens) + Cardinality(InFlightOf(r.route)) <= MaxTokens
    /\ r.route = "POST /users" => userCount + Cardinality(InFlightOf(r.route)) < MaxUsers
    /\ r.route = "POST /tasks" => taskCount + Cardinality(InFlightOf(r.route)) < MaxTasks
    /\ inflight' = [o \in Slots |->
            IF o = s THEN [Idle EXCEPT !.pc = "received", !.req = r,
                                       !.overlap = (InFlight \ {s} # {})]
            ELSE IF o \in InFlight THEN [inflight[o] EXCEPT !.overlap = TRUE]
            ELSE inflight[o]]
    /\ UNCHANGED <<users, tasks, userCount, taskCount, now, issued, req, resp, versions>>

\* The auth middleware of a protected route: await User.findOne(...)
AuthStep(s) ==
    LET r == inflight[s].req
        a == Auth(r.header)
    IN /\ inflight[s].pc = "received"
       /\ r.route \notin {"POST /users", "POST /users/login"}
       /\ UNCHANGED <<store, versions>>
       /\ IF a.ok
          THEN Move(s, [inflight[s] EXCEPT !.pc = "authed", !.user = a.user, !.token = a.token,
                                           !.doc = users[a.user], !.ver = versions[a.user]])
          ELSE Answer(s, AuthFailure(r.header))

\* A faulty variant: save() writes the array whatever the stored __v is
VersionIgnored(id, ver) == id \in DOMAIN users

\* save() of a document whose array was assigned: the update is
\* updateOne({ _id, __v: ver }, { $set, $inc: { __v: 1 } }); it matches when
\* the stored document still has the __v that was loaded
VersionMatches(id, ver) == id \in DOMAIN users /\ versions[id] = ver

\* save() of a loaded document: the modified paths are written
UpdateUser(coll, id, doc, modified) ==
    [coll EXCEPT ![id] = [p \in DOMAIN @ |->
        IF p \in modified THEN PreSave(doc, modified)[p] ELSE @[p]]]

\* router.post('/users/login'): await User.findByCredentials(...)
LoginFind(s) ==
    LET b == inflight[s].req.body
        found == FindByCredentials(b.email, b.password)
    IN /\ inflight[s].pc = "received"
       /\ inflight[s].req.route = "POST /users/login"
       /\ UNCHANGED <<store, versions>>
       /\ IF found.user = 0
          THEN Answer(s, Response(400, SendError(found.error), TRUE))
          ELSE Move(s, [inflight[s] EXCEPT !.pc = "found", !.user = found.user,
                                           !.doc = users[found.user],
                                           !.ver = versions[found.user]])

\* await user.generateAuthToken() on the document the request loaded, then
\* the response with the status of the route
GenerateAuthToken(s, status) ==
    LET id == inflight[s].user
        token == JwtSign(id)
        doc == [inflight[s].doc EXCEPT !.tokens = ConcatToken(@, token)]
    IN IF VersionMatches(id, inflight[s].ver)
       THEN /\ users' = UpdateUser(users, id, doc, {"tokens"})
            /\ versions' = [versions EXCEPT ![id] = @ + 1]
            /\ issued' = issued \cup {token}
            /\ UNCHANGED <<tasks, userCount, taskCount>>
            /\ Answer(s, Response(status, [EmptyBody EXCEPT !.user = ToJSON(id, doc),
                                                            !.newToken = token], TRUE))
       ELSE /\ UNCHANGED <<store, versions>>
            /\ Answer(s, Response(400, SendError(Err("VersionError", "")), TRUE))

\* router.post('/users/login'): await user.generateAuthToken()
LoginSave(s) ==
    /\ inflight[s].pc = "found"
    /\ GenerateAuthToken(s, 200)

\* router.post('/users'): await user.save(), the insert of the new document
RegisterSave(s) ==
    LET id == userCount + 1
        doc == NewUser(inflight[s].req.body)
    IN /\ inflight[s].pc = "received"
       /\ inflight[s].req.route = "POST /users"
       /\ IF InvalidUserPaths(doc) # {}
          THEN /\ UNCHANGED <<store, versions>>
               /\ Answer(s, Response(400, SendError(Err("ValidationError", "")), TRUE))
          ELSE IF EmailTaken(doc.email, id)
          THEN /\ UNCHANGED <<store, versions>>
               /\ Answer(s, Response(400, SendError(Err("MongoError", "E11000")), TRUE))
          ELSE /\ users' = SaveUser(users, id, doc, {"name", "email", "password"})
               /\ userCount' = id
               /\ versions' = (id :> 0) @@ versions
               /\ UNCHANGED <<tasks, taskCount, issued>>
               /\ Move(s, [inflight[s] EXCEPT !.pc = "created", !.user = id,
                                              !.doc = PreSave(doc, {"password"}), !.ver = 0])

\* router.post('/users'): await user.generateAuthToken()
RegisterToken(s) ==
    /\ inflight[s].pc = "created"
    /\ GenerateAuthToken(s, 201)

\* router.post('/tasks'): await task.save()
CreateTaskSave(s) ==
    LET id == taskCount + 1
        doc == NewTask(inflight[s].req.body, inflight[s].user)
    IN /\ inflight[s].pc = "authed"
       /\ inflight[s].req.route = "POST /tasks"
       /\ UNCHANGED versions
       /\ IF InvalidTaskPaths(doc) # {}
          THEN /\ UNCHANGED store
               /\ Answer(s, Response(400, SendError(Err("ValidationError", "")), TRUE))
          ELSE /\ tasks' = (id :> doc) @@ tasks
               /\ taskCount' = id
               /\ UNCHANGED <<users, userCount, issued>>
               /\ Answer(s, Response(201, [EmptyBody EXCEPT !.task = TaskDocJSON(id, doc)], TRUE))

\* router.patch('/tasks/:id'): the allowlist, then await Task.findOne(...)
PatchTaskFind(s) ==
    LET r == inflight[s].req
        task == FindTask(r.id, inflight[s].user)
    IN /\ inflight[s].pc = "authed"
       /\ r.route = "PATCH /tasks/:id"
       /\ UNCHANGED <<store, versions>>
       /\ IF ~IsValidOperation(r.body.keys, AllowedTaskUpdates)
          THEN Answer(s, Response(400, [EmptyBody EXCEPT !.error =
                    "You are trying to update a Task property that is not allowed or doesn't exist"], TRUE))
          ELSE IF task = 0
          THEN Answer(s, Response(404, [EmptyBody EXCEPT !.error = "User not found"], TRUE))
          ELSE Move(s, [inflight[s] EXCEPT !.pc = "loaded", !.task = tasks[task]])

\* router.patch('/tasks/:id'): the assignments, then await task.save(), an
\* updateOne({ _id }, { $set }) of the modified paths that throws
\* DocumentNotFoundError when it matches no document
PatchTaskSave(s) ==
    LET r == inflight[s].req
        doc == ApplyTaskUpdates(inflight[s].task, r.body)
        modified == {p \in DOMAIN doc : doc[p] # inflight[s].task[p]}
    IN /\ inflight[s].pc = "loaded"
       /\ UNCHANGED versions
       /\ IF InvalidTaskPaths(doc) # {}
          THEN /\ UNCHANGED store
               /\ Answer(s, Response(400, SendError(Err("ValidationError", "")), TRUE))
          ELSE IF modified # {} /\ r.id \notin DOMAIN tasks
          THEN /\ UNCHANGED store
               /\ Answer(s, Response(400, SendError(Err("DocumentNotFoundError", "")), TRUE))
          ELSE /\ tasks' = IF modified = {} THEN tasks
                           ELSE [tasks EXCEPT ![r.id] = [p \in DOMAIN @ |->
                                    IF p \in modified THEN doc[p] ELSE @[p]]]
               /\ UNCHANGED <<users, userCount, taskCount, issued>>
               /\ Answer(s, Response(200, [EmptyBody EXCEPT !.task = TaskDocJSON(r.id, doc)], TRUE))

\* A faulty variant: the user document is deleted first, the tasks second
RemoveOpUserFirst(i, u) ==
    IF i = 1 THEN [users |-> RemoveUser(users, u), tasks |-> tasks]
    ELSE [users |-> users, tasks |-> DeleteManyByOwner(tasks, u)]

\* req.user.remove(): the collections after its i-th store operation, the
\* deleteMany of the pre('remove') hook first, the deleteOne of the user
\* document second
RemoveOp(i, u) ==
    IF i = 1 THEN [users |-> users, tasks |-> DeleteManyByOwner(tasks, u)]
    ELSE [users |-> RemoveUser(users, u), tasks |-> tasks]

\* router.delete('/users/me'): the first store operation of req.user.remove()
DeleteMeHook(s) ==
    LET after == RemoveOp(1, inflight[s].user) IN
    /\ inflight[s].pc = "authed"
    /\ inflight[s].req.route = "DELETE /users/me"
    /\ users' = after.users
    /\ tasks' = after.tasks
    /\ versions' = [u \in DOMAIN after.users |-> versions[u]]
    /\ UNCHANGED <<userCount, taskCount, issued>>
    /\ Move(s, [inflight[s] EXCEPT !.pc = "hooked",
            !.n = Cardinality(DOMAIN tasks) - Cardinality(DOMAIN after.tasks)])

\* router.delete('/users/me'): the second store operation, then res.send
DeleteMeRemove(s) ==
    LET after == RemoveOp(2, inflight[s].user) IN
    /\ inflight[s].pc = "hooked"
    /\ users' = after.users
    /\ tasks' = after.tasks
    /\ versions' = [u \in DOMAIN after.users |-> versions[u]]
    /\ UNCHANGED <<userCount, taskCount, issued>>
    /\ Answer(s, Response(200, [EmptyBody EXCEPT !.user =
                    ToJSON(inflight[s].user, inflight[s].doc)], TRUE))

\* The process stops and is started again: the requests in flight are lost,
\* the database keeps what was written
Crash ==
    /\ InFlight # {}
    /\ inflight' = [s \in Slots |->
            IF s \in InFlight
            THEN [inflight[s] EXCEPT !.pc = "lost", !.lostAt = inflight[s].pc]
            ELSE inflight[s]]
    /\ UNCHANGED <<users, tasks, userCount, taskCount, now, issued, req, resp, versions>>

\* The steps of the request of slot s
RaceStep(s) ==
    \/ \E r \in RaceRequests : Receive(s, r)
    \/ AuthStep(s)
    \/ LoginFind(s)
    \/ LoginSave(s)
    \/ CreateTaskSave(s)
    \/ PatchTaskFind(s)
    \/ PatchTaskSave(s)
    \/ DeleteMeHook(s)
    \/ DeleteMeRemove(s)

\* Interleaving: one registered user, and up to MaxInflight requests handled
\* at once.
InitRace ==
    /\ users = (1 :> RegisteredUser(1, "a@x.io"))
    /\ tasks = << >>
    /\ userCount = 1
    /\ taskCount = 0
    /\ now = 0
    /\ issued = {RaceToken}
    /\ req = NoReq
    /\ resp = NoResp
    /\ inflight = [s \in Slots |-> Idle]
    /\ versions = (1 :> 1)

NextRace ==
    \/ \E s \in Slots : RaceStep(s)
    \/ Tick

SpecRace == InitRace /\ [][NextRace]_vars

SpecRecord == InitRace /\ [][NextRecord]_vars

\* The steps of a registration or login in slot s
IssueStep(s) ==
    \/ \E r \in IssueRequests : Receive(s, r)
    \/ LoginFind(s)
    \/ LoginSave(s)
    \/ RegisterSave(s)
    \/ RegisterToken(s)

\* Token issuance: registrations and logins handled at once.
NextIssue ==
    \/ \E s \in Slots : IssueStep(s)
    \/ Tick

SpecIssue == InitRace /\ [][NextIssue]_vars

\* Crashes: one request at a time, and the process may stop at any await.
NextCrash ==
    \/ RaceStep(1)
    \/ Crash

SpecCrash == InitRace /\ [][NextCrash]_vars

(* ------------------- the user record under interleaving ---------------- *)
\* router.post('/users/logout'): the filter on the document the middleware
\* loaded, then await req.user.save(), a versioned write of the array
LogoutSave(s) ==
    LET id == inflight[s].user
        doc == [inflight[s].doc EXCEPT !.tokens = FilterTokens(@, inflight[s].token)]
    IN /\ inflight[s].pc = "authed"
       /\ inflight[s].req.route = "POST /users/logout"
       /\ IF VersionMatches(id, inflight[s].ver)
          THEN /\ users' = UpdateUser(users, id, doc, {"tokens"})
               /\ versions' = [versions EXCEPT ![id] = @ + 1]
               /\ UNCHANGED <<tasks, userCount, taskCount, issued>>
               /\ Answer(s, Response(200, [EmptyBody EXCEPT !.text =
                                "You have been succesfully logged out"], TRUE))
          ELSE /\ UNCHANGED <<store, versions>>
               /\ Answer(s, Response(500, SendError(Err("VersionError", "")), TRUE))

\* router.patch('/users/me'): the allowlist, the assignments on the document
\* the middleware loaded, then await user.save(), which writes the modified
\* paths and no others
PatchMeSave(s) ==
    LET r == inflight[s].req
        id == inflight[s].user
        doc == ApplyUserUpdates(inflight[s].doc, r.body)
        modified == ModifiedPaths(inflight[s].doc, doc)
    IN /\ inflight[s].pc = "authed"
       /\ r.route = "PATCH /users/me"
       /\ UNCHANGED versions
       /\ IF ~IsValidOperation(r.body.keys, AllowedUserUpdates)
          THEN /\ UNCHANGED store
               /\ Answer(s, Response(400, [EmptyBody EXCEPT !.error =
                    "You are trying to update a User property that is not allowed or doesn't exist"], TRUE))
          ELSE IF InvalidUserPaths(doc) # {}
          THEN /\ UNCHANGED store
               /\ Answer(s, Response(400, SendError(Err("ValidationError", "")), TRUE))
          ELSE IF modified # {} /\ id \notin DOMAIN users
          THEN /\ UNCHANGED store
               /\ Answer(s, Response(400, SendError(Err("DocumentNotFoundError", "")), TRUE))
          ELSE IF "email" \in modified /\ EmailTaken(doc.email, id)
          THEN /\ UNCHANGED store
               /\ Answer(s, Response(400, SendError(Err("MongoError", "E11000")), TRUE))
          ELSE /\ users' = IF modified = {} THEN users ELSE UpdateUser(users, id, doc, modified)
               /\ UNCHANGED <<tasks, userCount, taskCount, issued>>
               /\ Answer(s, Response(200, [EmptyBody EXCEPT !.user =
                                ToJSON(id, PreSave(doc, modified))], TRUE))

\* A handler without try/catch whose promise rejects: express 4 sends
\* nothing, the request stays open
Hang(s) ==
    /\ UNCHANGED store
    /\ Move(s, [inflight[s] EXCEPT !.pc = "hung"])

\* The avatar routes: the assignment on the document the middleware loaded,
\* then await req.user.save() of the avatar path
AvatarSave(s, doc, text) ==
    LET id == inflight[s].user
        modified == ModifiedPaths(inflight[s].doc, doc)
    IN /\ UNCHANGED versions
       /\ IF modified # {} /\ id \notin DOMAIN users
          THEN Hang(s)
          ELSE /\ users' = IF modified = {} THEN users ELSE UpdateUser(users, id, doc, modified)
               /\ UNCHANGED <<tasks, userCount, taskCount, issued>>
               /\ Answer(s, Response(200, [EmptyBody EXCEPT !.text = text], TRUE))

\* router.post('/users/me/avatar'): multer, sharp, then the save
UploadAvatarSave(s) ==
    LET f == inflight[s].req.body.file IN
    /\ inflight[s].pc = "authed"
    /\ inflight[s].req.route = "POST /users/me/avatar"
    /\ IF UploadError(f) # ""
       THEN /\ UNCHANGED <<store, versions>>
            /\ Answer(s, Response(400, [EmptyBody EXCEPT !.error = UploadError(f)], TRUE))
       ELSE AvatarSave(s, [inflight[s].doc EXCEPT !.avatar = SharpPng(f)],
                       "Avatar image uploaded")

\* router.delete('/users/me/avatar')
DeleteAvatarSave(s) ==
    /\ inflight[s].pc = "authed"
    /\ inflight[s].req.route = "DELETE /users/me/avatar"
    /\ AvatarSave(s, ClearAvatar(inflight[s].doc), "Successfully deleted your avatar")

\* Requests on the record of the registered user: a login, a logout with a
\* token handed out, changes of the name and of the password, an avatar
\* upload and an avatar deletion
SessionRequests ==
    {Request("POST /users/login", NoHeader,
             [NoBody EXCEPT !.keys = {"email", "password"}, !.email = "a@x.io",
                            !.password = "hunter22"], 0, NoQuery)}
    \cup {Request("POST /users/logout", Bearer(t), NoBody, 0, NoQuery) : t \in issued}
    \cup {Request("PATCH /users/me", Bearer(t), b, 0, NoQuery) :
            t \in issued,
            b \in {[NoBody EXCEPT !.keys = {"name"}, !.name = "Bob"],
                   [NoBody EXCEPT !.keys = {"password"}, !.password = "hunter22"]}}
    \cup {Request("POST /users/me/avatar", Bearer(t),
                  [NoBody EXCEPT !.keys = {"avatarUpload"}, !.file = "me.png"], 0, NoQuery) :
            t \in issued}
    \cup {Request("DELETE /users/me/avatar", Bearer(t), NoBody, 0, NoQuery) : t \in issued}

\* The steps of a request on the user record in slot s; requests are taken up
\* while the __v of the record leaves room for their writes
SessionStep(s) ==
    \/ \E r \in SessionRequests :
          /\ \A u \in DOMAIN versions : versions[u] + Cardinality(InFlight \ {s}) < MaxVersion
          /\ Receive(s, r)
    \/ AuthStep(s)
    \/ LoginFind(s)
    \/ LoginSave(s)
    \/ LogoutSave(s)
    \/ PatchMeSave(s)
    \/ UploadAvatarSave(s)
    \/ DeleteAvatarSave(s)

\* Sessions under interleaving: logins, logouts and profile writes of one
\* user handled at once.
NextSession ==
    \/ \E s \in Slots : SessionStep(s)
    \/ Tick

SpecSession == InitRace /\ [][NextSession]_vars

(* ----------------------------- store failures -------------------------- *)
\* The error a store operation throws when the database cannot serve it
StoreError == Err("MongoNetworkError", "connection closed")

\* No res.send at all: the request stays open
NoResponse == [NoResp EXCEPT !.handled = TRUE]

\* What a route answers when a store operation of its handler throws e: the
\* response of its catch block. The avatar routes have no try/catch: under
\* express 4 the rejection of the async handler is not seen and nothing is
\* sent; under express 5 it goes to next(err), that is the error handler of
\* the upload route and the default error handler for the deletion.
CaughtResponses(route, e) ==
    CASE route \in {"POST /users", "POST /users/login", "PATCH /users/me",
                    "POST /tasks", "PATCH /tasks/:id"} ->
            {Response(400, SendError(e), TRUE)}
      [] route \in {"POST /users/logout", "POST /users/logoutAll"} ->
            {Response(500, SendError(e), TRUE)}
      [] route \in {"DELETE /users/me", "DELETE /tasks/:id", "GET /tasks"} ->
            {Response(500, EmptyBody, TRUE)}
      [] route = "GET /tasks/:id" ->
            {Response(404, EmptyBody, TRUE)}
      [] route = "POST /users/me/avatar" ->
            {NoResponse, Response(400, [EmptyBody EXCEPT !.error = e.message], TRUE)}
      [] route = "DELETE /users/me/avatar" ->
            {NoResponse, Response(500, [EmptyBody EXCEPT !.text = "Internal Server Error"], TRUE)}

\* The handler of request r, run for the authenticated user, gets as far as
\* its i-th store operation
ReachesStore(r, user, i) ==
    LET b == r.body IN
    CASE r.route = "POST /users" ->
            /\ i \in 1..2
            /\ userCount < MaxUsers
            /\ InvalidUserPaths(NewUser(b)) = {}
            /\ i = 2 => ~EmailTaken(NewUser(b).email, userCount + 1)
      [] r.route = "POST /users/login" ->
            i = 1 \/ (i = 2 /\ FindByCredentials(b.email, b.password).user # 0)
      [] r.route \in {"POST /users/logout", "POST /users/logoutAll"} -> i = 1
      [] r.route = "DELETE /users/me" -> i \in 1..2
      [] r.route = "PATCH /users/me" ->
            /\ i = 1
            /\ IsValidOperation(b.keys, AllowedUserUpdates)
            /\ LET doc == ApplyUserUpdates(users[user], b)
               IN InvalidUserPaths(doc) = {} /\ ModifiedPaths(users[user], doc) # {}
      [] r.route = "POST /users/me/avatar" ->
            i = 1 /\ UploadError(b.file) = "" /\ users[user].avatar # SharpPng(b.file)
      [] r.route = "DELETE /users/me/avatar" -> i = 1 /\ users[user].avatar # 0
      [] r.route = "POST /tasks" -> i = 1 /\ InvalidTaskPaths(NewTask(b, user)) = {}
      [] r.route = "PATCH /tasks/:id" ->
            /\ IsValidOperation(b.keys, AllowedTaskUpdates)
            /\ \/ i = 1
               \/ /\ i = 2
                  /\ FindTask(r.id, user) # 0
                  /\ LET doc == ApplyTaskUpdates(tasks[r.id], b)
                     IN InvalidTaskPaths(doc) = {} /\ doc # tasks[r.id]
      [] r.route \in {"GET /tasks/:id", "DELETE /tasks/:id", "GET /tasks"} -> i = 1
      [] OTHER -> FALSE

\* Requests whose handlers reach the store
FaultRequests ==
    {Request("POST /users", NoHeader,
             [NoBody EXCEPT !.keys = {"name", "email", "password"}, !.name = "Ann",
                            !.email = "b@x.io", !.password = "hunter22"], 0, NoQuery),
     Request("POST /users/login", NoHeader,
             [NoBody EXCEPT !.keys = {"email", "password"}, !.email = "a@x.io",
                            !.password = "hunter22"], 0, NoQuery)}
    \cup {Request(route, Bearer(t), NoBody, 0, NoQuery) :
            route \in {"POST /users/logout", "POST /users/logoutAll", "DELETE /users/me",
                       "DELETE /users/me/avatar", "GET /tasks"},
            t \in issued}
    \cup {Request("PATCH /users/me", Bearer(t),
                  [NoBody EXCEPT !.keys = {"name"}, !.name = "Bob"], 0, NoQuery) : t \in issued}
    \cup {Request("POST /users/me/avatar", Bearer(t),
                  [NoBody EXCEPT !.keys = {"avatarUpload"}, !.file = "me.png"], 0, NoQuery) :
            t \in issued}
    \cup {Request("POST /tasks", Bearer(t),
                  [NoBody EXCEPT !.keys = {"description"}, !.description = "buy milk"],
                  0, NoQuery) : t \in issued}
    \cup {Request("PATCH /tasks/:id", Bearer(t),
                  [NoBody EXCEPT !.keys = {"completed"}, !.completed = TRUE], id, NoQuery) :
            t \in issued, id \in TaskIds}
    \cup {Request(route, Bearer(t), NoBody, id, NoQuery) :
            route \in {"GET /tasks/:id", "DELETE /tasks/:id"}, t \in issued, id \in TaskIds}

\* Request r passes the middleware and the i-th store operation of its
\* handler throws: the operations before it have been done, the handler's
\* catch block (if it has one) answers, nothing is tried again
StoreFails(r, i) ==
    LET a == Auth(r.header) IN
    /\ r.route \in {"POST /users", "POST /users/login"} \/ a.ok
    /\ ReachesStore(r, a.user, i)
    /\ req' = r
    /\ now' = now
    /\ UNCHANGED <<inflight, versions>>
    /\ \E response \in CaughtResponses(r.route, StoreError) : resp' = response
    /\ IF r.route = "POST /users" /\ i = 2
       THEN /\ users' = SaveUser(users, userCount + 1, NewUser(r.body),
                                 {"name", "email", "password"})
            /\ userCount' = userCount + 1
            /\ UNCHANGED <<tasks, taskCount, issued>>
       ELSE IF r.route = "DELETE /users/me" /\ i = 2
       THEN /\ tasks' = RemoveOp(1, a.user).tasks
            /\ UNCHANGED <<users, userCount, taskCount, issued>>
       ELSE UNCHANGED store

\* The findOne of the auth middleware throws: its catch block answers 401
AuthStoreFails(r) ==
    /\ r.header.scheme # "absent"
    /\ JwtVerifies(HeaderToken(r.header))
    /\ req' = r
    /\ now' = now
    /\ resp' = AuthFailure(r.header)
    /\ UNCHANGED <<store, inflight, versions>>

\* Store failures: one registered user, requests handled one at a time, and
\* any store operation of a handler may throw.
NextFault ==
    \/ \E r \in FaultRequests, i \in 1..2 : StoreFails(r, i)
    \/ \E r \in FaultRequests : AuthStoreFails(r)
    \/ \E b \in RegisterBodies : Register(b)
    \/ \E h \in Headers, b \in CreateTaskBodies : CreateTask(h, b)
    \/ \E h \in Headers, f \in Files : UploadAvatar(h, f)
    \/ \E h \in Headers : Logout(h)
    \/ \E h \in Headers : DeleteMe(h)

SpecFault == InitRace /\ [][NextFault]_vars

(* ======================= properties of the routes ====================== *)
\* The user a bearer token authenticates as against the collection coll, 0
\* when the middleware rejects it
AuthnOn(coll, t) == LET a == AuthOn(coll, Bearer(t)) IN IF a.ok THEN a.user ELSE 0
Authn(t) == AuthnOn(users, t)

\* The step is a request (the clock alone did not move)
RequestStep == now' = now

ProtectedRoutes ==
    {"POST /users/logout", "POST /users/logoutAll", "GET /users/me", "DELETE /users/me",
     "POST /tasks", "PATCH /tasks/:id", "GET /tasks/:id", "DELETE /tasks/:id", "GET /tasks"}

\* The tokens of a sequence
Range(seq) == {seq[i] : i \in 1..Len(seq)}

(* ---- C1 ---- *)
\* A registration payload the spec calls valid: a name, a well-formed email
\* no stored user has, a password of at least 7 characters without "password"
C1_ValidPayload(b) ==
    /\ {"name", "email", "password"} \subseteq b.keys
    /\ b.name # ""
    /\ b.email \in {"a@x.io", "A@x.io", "b@x.io"}
    /\ \A u \in DOMAIN users : users[u].email # EmailSetter(b.email)
    /\ b.password \in {"hunter22", "hunter23"}

\* The step revokes token t or deletes its user
C1_RevokesOrDeletes(t) ==
    /\ resp'.status = 200
    /\ \/ req'.route = "POST /users/logout" /\ req'.header.tok = t
       \/ /\ req'.route \in {"POST /users/logoutAll", "DELETE /users/me"}
          /\ Authn(req'.header.tok) = t.uid

\* C1: POST /users with a valid payload responds 201 with a token that
\* authenticates as the new user, and a token that authenticates as a user
\* keeps doing so on every later request until a logout with it, a logoutAll
\* of its user or the deletion of its user succeeds.
C1_RegisterTokenAuthenticates ==
    [][/\ (RequestStep /\ req'.route = "POST /users" /\ C1_ValidPayload(req'.body))
            => /\ resp'.status = 201
               /\ resp'.body.newToken.sig = "good"
               /\ resp'.body.user._id = userCount + 1
               /\ resp'.body.user._id \in DOMAIN users'
               /\ AuthnOn(users', resp'.body.newToken) = resp'.body.user._id
       /\ \A t \in issued :
            (Authn(t) # 0 /\ AuthnOn(users', t) # Authn(t)) => C1_RevokesOrDeletes(t)
      ]_vars

\* A registration has just been answered 201 and its token authenticates
C1_Witness ==
    /\ req.route = "POST /users"
    /\ resp.status = 201
    /\ Authn(resp.body.newToken) = resp.body.user._id
    /\ userCount = 2

(* ---- C2 ---- *)
\* The response POST /users/login gives for an email no user has
C2_UnknownEmailResponse ==
    Response(400, SendError(FindByCredentials("nobody@x.io", req.body.password).error), TRUE)

\* C2: POST /users/login with a stored email and the password that matches
\* its hash responds 200; with a stored email and another password it responds
\* 400, and that response is equal, status and body, to the one given for an
\* email that is not registered.
C2_LoginDoesNotLeak ==
    (req.route = "POST /users/login" /\ FindByEmail(req.body.email) # 0)
    => IF BcryptCompare(req.body.password, users[FindByEmail(req.body.email)].password)
       THEN resp.status = 200 /\ resp.body.newToken.sig = "good"
       ELSE resp.status = 400 /\ resp = C2_UnknownEmailResponse

\* A login with a stored email and a wrong password has been answered, and
\* so has, in another state, a login with an unknown email
C2_Witness ==
    /\ req.route = "POST /users/login"
    /\ FindByEmail(req.body.email) # 0
    /\ FindByEmail("b@x.io") = 0
    /\ ~BcryptCompare(req.body.password, users[FindByEmail(req.body.email)].password)
    /\ resp.status = 400

(* ---- C3 ---- *)
\* Token t was handed out and its user has since been deleted
C3_UserDeleted(t) == t \in issued /\ t.uid \notin DOMAIN users

\* Token t was handed out and is no longer in its user's token set
C3_LoggedOut(t) ==
    t \in issued /\ t.uid \in DOMAIN users /\ t \notin Range(users[t.uid].tokens)

\* C3: a request to a protected route with no Authorization header, with a
\* token whose user has been deleted, or with a token that has been logged
\* out, is answered 401.
C3_ProtectedRoutesReject ==
    [][(/\ RequestStep
        /\ req'.route \in ProtectedRoutes
        /\ \/ req'.header.scheme = "absent"
           \/ C3_UserDeleted(req'.header.tok)
           \/ C3_LoggedOut(req'.header.tok))
       => resp'.status = 401
      ]_vars

\* A task route has been answered 401 for the token of a deleted user
C3_Witness ==
    /\ req.route = "POST /tasks"
    /\ req.header.tok \in issued
    /\ req.header.tok.uid \notin DOMAIN users
    /\ resp.status = 401

(* ---- C4 ---- *)
\* The one response of the middleware's catch block
C4_AuthenticationFailed ==
    [status |-> 401, body |-> [EmptyBody EXCEPT !.error = "Authentication failed"],
     handled |-> FALSE, sends |-> 1]

\* C4: whenever the middleware rejects a request (no header, no JWT, a bad
\* signature, an unknown user, a token not in the user's set) the response is
\* the same 401 with the same body, the route handler does not run and the
\* store is unchanged.
C4_AuthFailuresCollapse ==
    [][(/\ RequestStep
        /\ req'.route \in ProtectedRoutes
        /\ ~Auth(req'.header).ok)
       => /\ resp' = C4_AuthenticationFailed
          /\ ~resp'.handled
          /\ store' = store
      ]_vars

\* A request whose token was logged out was rejected, after one with a bad
\* signature would have been
C4_Witness ==
    /\ req.route \in ProtectedRoutes
    /\ C3_LoggedOut(req.header.tok)
    /\ resp.status = 401
    /\ \E t \in issued : t.uid \notin DOMAIN users

(* ---- C5 ---- *)
\* Token t is verifiable and in the token set of the user whose id it embeds
C5_Valid(t) ==
    /\ t.sig = "good"
    /\ t.uid \in DOMAIN users
    /\ t \in Range(users[t.uid].tokens)

\* C5: a request to a protected route is authenticated (not answered 401)
\* exactly when its token is verifiable and in the token set of the user it
\* names; a successful POST /users/logout removes the token of the request
\* from that user's set and nothing else, so that token stops authenticating
\* and every other token authenticates as before.
C5_TokenValidity ==
    [][/\ (RequestStep /\ req'.route \in ProtectedRoutes)
            => (resp'.status # 401 <=>
                    (req'.header.scheme # "absent" /\ C5_Valid(req'.header.tok)))
       /\ (RequestStep /\ req'.route = "POST /users/logout" /\ resp'.status = 200)
            => LET t == req'.header.tok
                   u == t.uid
               IN /\ DOMAIN users' = DOMAIN users
                  /\ \A v \in DOMAIN users \ {u} : users'[v] = users[v]
                  /\ users'[u] = [users[u] EXCEPT !.tokens = SelectSeq(@, LAMBDA x : x # t)]
                  /\ AuthnOn(users', t) = 0
                  /\ \A x \in ClientTokens \ {t} : AuthnOn(users', x) = Authn(x)
      ]_vars

\* A logout has succeeded and another token of the same user still
\* authenticates
C5_Witness ==
    /\ req.route = "POST /users/logout"
    /\ resp.status = 200
    /\ Authn(req.header.tok) = 0
    /\ \E x \in issued : x # req.header.tok /\ Authn(x) = req.header.tok.uid

(* ---- C6 ---- *)
\* The user whose successful POST /users/logoutAll was the last request
C6_LoggedOutAll ==
    IF req.route = "POST /users/logoutAll" /\ resp.status = 200
    THEN req.header.tok.uid ELSE 0

\* C6 (as claimed): a successful POST /users/logoutAll empties the user's
\* token set, no token issued to the user before it authenticates any more,
\* other users' tokens are unaffected, and the next login issues a fresh
\* token that authenticates.
C6_LogoutAllRevokesForGood ==
    [][/\ (RequestStep /\ req'.route = "POST /users/logoutAll" /\ resp'.status = 200)
            => LET u == req'.header.tok.uid
               IN /\ users'[u].tokens = << >>
                  /\ \A t \in issued : t.uid = u => AuthnOn(users', t) = 0
                  /\ \A t \in issued : t.uid # u => AuthnOn(users', t) = Authn(t)
       /\ (RequestStep /\ C6_LoggedOutAll # 0
           /\ req'.route = "POST /users/login" /\ resp'.status = 200
           /\ resp'.body.user._id = C6_LoggedOutAll)
            => /\ AuthnOn(users', resp'.body.newToken) = C6_LoggedOutAll
               /\ resp'.body.newToken \notin issued
               /\ \A t \in issued : t.uid = C6_LoggedOutAll => AuthnOn(users', t) = 0
      ]_vars

\* What holds of logoutAll: the state it leaves, and that the next login's
\* token authenticates
C6_LogoutAllClearsTokens ==
    [][/\ (RequestStep /\ req'.route = "POST /users/logoutAll" /\ resp'.status = 200)
            => LET u == req'.header.tok.uid
               IN /\ users'[u].tokens = << >>
                  /\ \A t \in issued : t.uid = u => AuthnOn(users', t) = 0
                  /\ \A t \in issued : t.uid # u => AuthnOn(users', t) = Authn(t)
       /\ (RequestStep /\ C6_LoggedOutAll # 0
           /\ req'.route = "POST /users/login" /\ resp'.status = 200
           /\ resp'.body.user._id = C6_LoggedOutAll)
            => AuthnOn(users', resp'.body.newToken) = C6_LoggedOutAll
      ]_vars

(* ---- C7 ---- *)
\* C7: after a successful DELETE /users/me no task is owned by the deleted
\* user, a query for that user's tasks finds nothing, the tasks of other
\* users are as before, and no task is owned by a user that does not exist.
C7_DeleteCascades ==
    [][(RequestStep /\ req'.route = "DELETE /users/me" /\ resp'.status = 200)
       => LET u == Authn(req'.header.tok)
          IN /\ u \notin DOMAIN users'
             /\ \A t \in DOMAIN tasks' : tasks'[t].owner # u
             /\ Populate(tasks', u, NoQuery) = {<< >>}
             /\ \A t \in DOMAIN tasks :
                    tasks[t].owner # u => (t \in DOMAIN tasks' /\ tasks'[t] = tasks[t])
             /\ \A t \in DOMAIN tasks' : tasks'[t].owner \in DOMAIN users'
      ]_vars

\* A user who owned a task has been deleted while a task of the other user
\* remains
C7_Witness ==
    /\ req.route = "DELETE /users/me"
    /\ resp.status = 200
    /\ taskCount = 2
    /\ Cardinality(DOMAIN tasks) = 1
    /\ \A t \in DOMAIN tasks : tasks[t].owner # resp.body.user._id

(* ---- C8 ---- *)
\* The ids of the tasks in the response, as a set
C8_Returned == {resp.body.tasks[i]._id : i \in 1..Len(resp.body.tasks)}

\* The caller's tasks with completion flag in flags
C8_Owned(caller, flags) ==
    {t \in DOMAIN tasks : tasks[t].owner = caller /\ tasks[t].completed \in flags}

\* C8: GET /tasks returns only stored tasks owned by the caller, whatever
\* the parameters; with completed=true only completed ones, with
\* completed=false only uncompleted ones; and without limit and skip it
\* returns all of them: the completed ones, the uncompleted ones, or with no
\* completed parameter the tasks of both states.
C8_OnlyOwnTasks ==
    (req.route = "GET /tasks" /\ resp.status = 200)
    => LET caller == Authn(req.header.tok)
           flags == CASE req.query.completed = "true" -> {TRUE}
                      [] req.query.completed = "false" -> {FALSE}
                      [] req.query.completed = "" -> BOOLEAN
                      [] OTHER -> {}
       IN /\ \A i \in 1..Len(resp.body.tasks) :
                LET t == resp.body.tasks[i] IN
                /\ t._id \in DOMAIN tasks
                /\ t = TaskDocJSON(t._id, tasks[t._id])
                /\ t.owner = caller
                /\ req.query.completed \in {"true", "false"} => t.completed \in flags
          /\ (req.query.completed \in {"", "true", "false"}
              /\ req.query.limit = << >> /\ req.query.skip = << >>)
                => /\ C8_Returned = C8_Owned(caller, flags)
                   /\ Len(resp.body.tasks) = Cardinality(C8_Owned(caller, flags))

\* completed=true has returned a task while the store also holds an
\* uncompleted task of the caller and a completed task of the other user
C8_Witness ==
    /\ req.route = "GET /tasks"
    /\ resp.status = 200
    /\ req.query.completed = "true"
    /\ Len(resp.body.tasks) >= 1
    /\ \E t \in DOMAIN tasks : tasks[t].owner = 1 /\ ~tasks[t].completed
    /\ \E t \in DOMAIN tasks : tasks[t].owner = 2 /\ tasks[t].completed

(* ---- C9 ---- *)
\* C9: an authenticated PATCH /tasks/:id whose body has a key other than
\* description and completed is answered 400 and no stored task changes.
C9_DisallowedKeyRejected ==
    [][(/\ RequestStep
        /\ req'.route = "PATCH /tasks/:id"
        /\ Auth(req'.header).ok
        /\ \E k \in req'.body.keys : k \notin {"description", "completed"})
       => /\ resp'.status = 400
          /\ tasks' = tasks
      ]_vars

\* A PATCH carrying completed and owner for an uncompleted task of the caller
\* has been answered 400
C9_Witness ==
    /\ req.route = "PATCH /tasks/:id"
    /\ resp.status = 400
    /\ req.body.keys = {"completed", "owner"}
    /\ req.id \in DOMAIN tasks
    /\ tasks[req.id].owner = Authn(req.header.tok)
    /\ ~tasks[req.id].completed

(* ---- C10 ---- *)
\* The parameter is a number
C10_Numeric(s) == Len(s) >= 1 /\ \A i \in 1..Len(s) : DigitVal(s[i]) >= 0

C10_Min(a, b) == IF a < b THEN a ELSE b

\* The elements at positions S+1 through S+L of a sequence
C10_Window(seq, S, L) ==
    [i \in 1..(IF Len(seq) - S < 0 THEN 0 ELSE C10_Min(L, Len(seq) - S)) |-> seq[S + i]]

\* The ids of the tasks in the response, in order
C10_ReturnedIds == [i \in 1..Len(resp.body.tasks) |-> resp.body.tasks[i]._id]

\* Some sequence of the caller's filtered tasks in the requested sort order
\* of which the response is the window
C10_IsWindow(S, L) ==
    \E ordered \in Orders(tasks, Matching(tasks, Authn(req.header.tok), MatchOf(req.query)),
                          SortOf(req.query)) :
        C10_ReturnedIds = C10_Window(ordered, S, L)

C10_FiveOwned == DOMAIN tasks = 1..5 /\ \A t \in DOMAIN tasks : tasks[t].owner = 1

\* C10 (as claimed): with limit=L and skip=S the response is the window
\* S+1..S+L of the caller's filtered tasks in the requested order.
C10_PageIsWindow ==
    (/\ req.route = "GET /tasks" /\ resp.status = 200
     /\ C10_Numeric(req.query.limit) /\ C10_Numeric(req.query.skip))
    => C10_IsWindow(ParseInt(req.query.skip).val, ParseInt(req.query.limit).val)

\* C10 (amended): the same for L >= 1; with limit=0 the response is every
\* element from position S+1 on. With five owned tasks, limit=2 and skip=2
\* return tasks 3 and 4 in creation order (3 and 2 for createdAt_desc).
C10_PageIsWindowFromOne ==
    (/\ req.route = "GET /tasks" /\ resp.status = 200
     /\ C10_Numeric(req.query.limit) /\ C10_Numeric(req.query.skip))
    => LET S == ParseInt(req.query.skip).val
           L == ParseInt(req.query.limit).val
       IN /\ L >= 1 => C10_IsWindow(S, L)
          /\ L = 0 => C10_IsWindow(S, Cardinality(DOMAIN tasks))
          /\ (C10_FiveOwned /\ L = 2 /\ S = 2 /\ req.query.completed = "")
                => /\ req.query.sortBy \in {<< >>, <<"createdAt", "asc">>, <<"createdAt">>}
                        => C10_ReturnedIds = <<3, 4>>
                   /\ req.query.sortBy = <<"createdAt", "desc">>
                        => C10_ReturnedIds = <<3, 2>>

\* Five owned tasks, limit=2 and skip=2 without a sort: tasks 3 and 4
C10_Witness ==
    /\ req.route = "GET /tasks"
    /\ resp.status = 200
    /\ C10_FiveOwned
    /\ req.query.limit = <<"2">> /\ req.query.skip = <<"2">>
    /\ req.query.sortBy = << >> /\ req.query.completed = ""
    /\ C10_ReturnedIds = <<3, 4>>

(* ---- C11 ---- *)
C11_TaskRoutes == {"GET /tasks/:id", "PATCH /tasks/:id", "DELETE /tasks/:id"}

\* The request names a task of another user / a task id the store does not hold
C11_Foreign(r) == r.id \in DOMAIN tasks /\ tasks[r.id].owner # Authn(r.header.tok)
C11_Missing(r) == r.id \notin DOMAIN tasks

\* The not-found response of each of the three routes
C11_NotFound(route) ==
    CASE route = "GET /tasks/:id" -> [Response(404, EmptyBody, TRUE) EXCEPT !.sends = 3]
      [] route = "PATCH /tasks/:id" ->
            Response(404, [EmptyBody EXCEPT !.error = "User not found"], TRUE)
      [] OTHER -> Response(404, EmptyBody, TRUE)

\* C11 (as claimed): GET, PATCH and DELETE on /tasks/:id by an authenticated
\* user who does not own the task are answered 404, with the response given
\* for a task id that does not exist, and the stored tasks are unchanged.
C11_NonOwnerGets404 ==
    [][(/\ RequestStep
        /\ req'.route \in C11_TaskRoutes
        /\ Auth(req'.header).ok
        /\ C11_Foreign(req') \/ C11_Missing(req'))
       => /\ resp'.status = 404
          /\ resp' = C11_NotFound(req'.route)
          /\ tasks' = tasks
      ]_vars

\* C11 (amended): the same for GET, for DELETE and for a PATCH whose keys are
\* all among description and completed; a PATCH with another key is answered
\* 400 before the task is looked up. In every case the response for a task of
\* another user is the response for a task id that does not exist, and the
\* stored tasks are unchanged.
C11_NonOwnerSameAsMissing ==
    [][(/\ RequestStep
        /\ req'.route \in C11_TaskRoutes
        /\ Auth(req'.header).ok
        /\ C11_Foreign(req') \/ C11_Missing(req'))
       => /\ tasks' = tasks
          /\ IF req'.route = "PATCH /tasks/:id"
                /\ \E k \in req'.body.keys : k \notin {"description", "completed"}
             THEN resp' = Response(400, [EmptyBody EXCEPT !.error =
                    "You are trying to update a Task property that is not allowed or doesn't exist"], TRUE)
             ELSE resp'.status = 404 /\ resp' = C11_NotFound(req'.route)
      ]_vars

\* A PATCH with an allowed key for a task of the other user has been answered
\* 404 and the task is still uncompleted
C11_Witness ==
    /\ req.route = "PATCH /tasks/:id"
    /\ req.body.keys = {"completed"}
    /\ Authn(req.header.tok) # 0
    /\ req.id \in DOMAIN tasks
    /\ tasks[req.id].owner # Authn(req.header.tok)
    /\ ~tasks[req.id].completed
    /\ resp.status = 404

(* ---- C12 ---- *)
\* The last request was answered with a user record
C12_CarriesUser ==
    \/ req.route = "POST /users" /\ resp.status = 201
    \/ /\ req.route \in {"POST /users/login", "GET /users/me", "PATCH /users/me",
                         "DELETE /users/me"}
       /\ resp.status = 200

\* C12: the user record in the response to a registration, a login, GET,
\* PATCH or DELETE /users/me is the record of a user (its _id, name, email
\* and age) and has no password, tokens or avatar member.
C12_UserRecordOmitsSecrets ==
    C12_CarriesUser
    => /\ resp.body.user._id \in 1..userCount
       /\ {"_id", "name", "email", "age"} \subseteq DOMAIN resp.body.user
       /\ DOMAIN resp.body.user \cap {"password", "tokens", "avatar"} = {}
       /\ resp.body.user._id \in DOMAIN users
            => /\ resp.body.user.name = users[resp.body.user._id].name
               /\ resp.body.user.email = users[resp.body.user._id].email

\* A password change has been answered with the user record of a user who
\* has a token and an avatar stored
C12_Witness ==
    /\ req.route = "PATCH /users/me"
    /\ req.body.keys = {"password"}
    /\ resp.status = 200
    /\ resp.body.user._id \in DOMAIN users
    /\ users[resp.body.user._id].avatar = 1
    /\ users[resp.body.user._id].tokens # << >>

(* ---- C13 ---- *)
\* The stored password is a bcrypt hash of cost 8
C13_IsHash(p) == p.hashes >= 1 /\ p.rounds = BcryptRounds

\* C13: in every state the stored password of every user is a hash, not a
\* plaintext; after a registration or a password change through PATCH
\* /users/me it is the hash of the password submitted, with which a login
\* then succeeds.
C13_PasswordStoredHashed ==
    /\ \A u \in DOMAIN users :
          /\ C13_IsHash(users[u].password)
          /\ \A s \in Passwords : users[u].password # Plain(s)
    /\ (/\ req.route \in {"POST /users", "PATCH /users/me"}
        /\ "password" \in req.body.keys
        /\ resp.status \in {200, 201})
       => LET p == users[resp.body.user._id].password IN
          /\ p # Plain(req.body.password)
          /\ p = BcryptHash(Plain(req.body.password))
          /\ BcryptCompare(req.body.password, p)

\* A password change through PATCH /users/me has been stored
C13_Witness ==
    /\ req.route = "PATCH /users/me"
    /\ resp.status = 200
    /\ req.body.password = "hunter23"
    /\ users[resp.body.user._id].password = BcryptHash(Plain("hunter23"))

(* ---- C14 ---- *)
\* The body has a field the schema's validators reject
C14_InvalidField(b) ==
    \/ "password" \in b.keys /\ b.password \in {"short1", "MyPassword1"}
    \/ "email" \in b.keys /\ b.email = "not-an-email"
    \/ "age" \in b.keys /\ b.age < 0

\* C14: an authenticated PATCH /users/me whose body has a key other than
\* name, email, password and age is answered 400 and the store is unchanged,
\* the allowed fields of the same body included; one whose keys are allowed
\* but one of whose fields fails validation is answered 400 and none of its
\* fields is stored; whenever the answer is 400 the stored user is unchanged,
\* and when it is 200 every field sent is stored.
C14_PatchMeAllOrNothing ==
    [][(/\ RequestStep
        /\ req'.route = "PATCH /users/me"
        /\ Auth(req'.header).ok)
       => LET u == Auth(req'.header).user
              b == req'.body
          IN /\ (\E k \in b.keys : k \notin {"name", "email", "password", "age"})
                    => resp'.status = 400 /\ store' = store
             /\ C14_InvalidField(b) => resp'.status = 400 /\ users' = users
             /\ resp'.status \in {200, 400}
             /\ resp'.status = 400 => users' = users
             /\ resp'.status = 200
                    => /\ "name" \in b.keys => users'[u].name = b.name
                       /\ "email" \in b.keys => users'[u].email = b.email
                       /\ "age" \in b.keys => users'[u].age = b.age
                       /\ "password" \in b.keys => BcryptCompare(b.password, users'[u].password)
      ]_vars

\* A PATCH with a new name and a too short password has been answered 400
\* and the stored name is the old one
C14_Witness ==
    /\ req.route = "PATCH /users/me"
    /\ req.body.keys = {"name", "password"}
    /\ resp.status = 400
    /\ Authn(req.header.tok) # 0
    /\ users[Authn(req.header.tok)].name = "Ann"

(* ---- C15 ---- *)
\* C15: an authenticated DELETE /users/me/avatar is answered 200 and leaves
\* the stored user without avatar and otherwise as it was; when the avatar
\* was already absent, as after a first call, the store is unchanged, and a
\* call that follows a successful call by the same user gets the same
\* response and changes nothing.
C15_DeleteAvatarIdempotent ==
    [][(/\ RequestStep
        /\ req'.route = "DELETE /users/me/avatar"
        /\ Auth(req'.header).ok)
       => LET u == Auth(req'.header).user
          IN /\ resp'.status = 200
             /\ users' = [users EXCEPT ![u].avatar = 0]
             /\ <<tasks', userCount', taskCount', issued'>> = <<tasks, userCount, taskCount, issued>>
             /\ users[u].avatar = 0 => users' = users
             /\ (/\ req.route = "DELETE /users/me/avatar"
                 /\ resp.status = 200
                 /\ Authn(req.header.tok) = u)
                    => users' = users /\ resp' = resp
      ]_vars

\* DELETE /users/me/avatar has been answered 200, the caller has no avatar
\* and keeps the token, while the other user still has an uploaded avatar
C15_Witness ==
    /\ req.route = "DELETE /users/me/avatar"
    /\ resp.status = 200
    /\ Authn(req.header.tok) # 0
    /\ users[Authn(req.header.tok)].avatar = 0
    /\ \E v \in DOMAIN users : users[v].avatar = 1

(* ---- C16 ---- *)
\* The parameter was given and is not a number
C16_NonNumeric(s) == s # << >> /\ ~C10_Numeric(s)

\* The parameter was given and does not begin with a digit
C16_NoLeadingDigit(s) == s # << >> /\ DigitVal(s[1]) < 0

\* The leading digits of the parameter
C16_LeadingDigits(s) ==
    SubSeq(s, 1, Cardinality({i \in 1..Len(s) : \A j \in 1..i : DigitVal(s[j]) >= 0}))

\* The responses GET /tasks may give the caller for the query q
C16_Responses(q) == Populate(tasks, Authn(req.header.tok), q)

C17_Key(t, field) ==
    IF field = "createdAt" THEN t._id ELSE IF t.completed THEN 1 ELSE 0

\* C17: with sortBy=field_direction the returned tasks are in descending
\* order of the field when the direction is exactly desc, and in ascending
\* order when it is asc, missing or any other token.
C17_DescOnlyForDesc ==
    (/\ req.route = "GET /tasks" /\ resp.status = 200
     /\ req.query.sortBy # << >>
     /\ req.query.sortBy[1] \in {"createdAt", "completed"})
    => LET parts == req.query.sortBy
           desc == Len(parts) >= 2 /\ parts[2] = "desc"
           found == resp.body.tasks
       IN \A i, j \in 1..Len(found) :
            i < j => IF desc
                     THEN C17_Key(found[i], parts[1]) >= C17_Key(found[j], parts[1])
                     ELSE C17_Key(found[i], parts[1]) <= C17_Key(found[j], parts[1])

\* sortBy=createdAt_DESC has been answered with the caller's tasks in
\* ascending order
C17_Witness ==
    /\ req.route = "GET /tasks"
    /\ resp.status = 200
    /\ req.query.sortBy = <<"createdAt", "DESC">>
    /\ Len(resp.body.tasks) >= 2
    /\ resp.body.tasks[1]._id < resp.body.tasks[2]._id

(* ---- C18 ---- *)
\* C18 (as claimed): in every state, whatever the interleaving of the
\* requests of a user, every stored task has an owner that is a stored user.
C18_NoOrphanTasks == \A t \in DOMAIN tasks : tasks[t].owner \in DOMAIN users

(* ---- C19 ---- *)
\* The step is a crash that catches the deletion of slot s between its two
\* store operations
C19_CrashMidDelete(s) == inflight[s].pc = "hooked" /\ inflight'[s].pc = "lost"

\* C19 (as claimed): a crash between the two store operations of an account
\* deletion, for a user who owned tasks, leaves the user record gone while
\* tasks owned by that user still exist.
C19_CrashLeavesOrphans ==
    [][\A s \in Slots :
        (C19_CrashMidDelete(s) /\ inflight[s].n > 0)
        => /\ inflight[s].user \notin DOMAIN users'
           /\ \E t \in DOMAIN tasks' : tasks'[t].owner = inflight[s].user
      ]_vars

\* C19 (amended): account deletion is two store operations, the deletion of
\* the user's tasks first and of the user record second; a crash between
\* them leaves the user record as it was, with none of its tasks, and no
\* crash leaves a task whose owner is not a stored user.
C19_CrashKeepsUser ==
    [][/\ \A s \in Slots :
            C19_CrashMidDelete(s)
            => LET u == inflight[s].user IN
               /\ u \in DOMAIN users'
               /\ users'[u] = inflight[s].doc
               /\ \A t \in DOMAIN tasks' : tasks'[t].owner # u
       /\ \A s \in Slots :
            (inflight[s].pc = "authed" /\ inflight'[s].pc = "hooked")
            => /\ users' = users
               /\ inflight'[s].n = Cardinality({t \in DOMAIN tasks : tasks[t].owner = inflight[s].user})
       /\ (\A t \in DOMAIN tasks : tasks[t].owner \in DOMAIN users)
            => \A t \in DOMAIN tasks' : tasks'[t].owner \in DOMAIN users'
      ]_vars

\* A crash has caught a deletion after its tasks were deleted: the user is
\* still stored and owns no task
C19_Witness ==
    \E s \in Slots :
        /\ inflight[s].pc = "lost"
        /\ inflight[s].lostAt = "hooked"
        /\ inflight[s].n >= 1
        /\ inflight[s].user \in DOMAIN users
        /\ \A t \in DOMAIN tasks : tasks[t].owner # inflight[s].user

(* ---- C20 ---- *)
\* The request of slot s was a registration or login answered with success
C20_Issued(s) ==
    /\ inflight[s].pc = "done"
    /\ \/ inflight[s].req.route = "POST /users/login" /\ inflight[s].resp.status = 200
       \/ inflight[s].req.route = "POST /users" /\ inflight[s].resp.status = 201

\* C20: every token a registration or login returned with success is in the
\* stored token set of its user and authenticates as that user; in particular
\* when two such requests for one user were in flight at the same time and
\* both were answered with success, both returned tokens are.
C20_IssuedTokensKept ==
    /\ \A t \in issued :
          /\ t.uid \in DOMAIN users
          /\ t \in Range(users[t.uid].tokens)
          /\ Authn(t) = t.uid
    /\ \A s, o \in Slots :
          (/\ s # o
           /\ C20_Issued(s) /\ C20_Issued(o)
           /\ inflight[s].overlap /\ inflight[o].overlap
           /\ inflight[s].user = inflight[o].user)
          => \A x \in {inflight[s].resp.body.newToken, inflight[o].resp.body.newToken} :
                /\ x \in Range(users[inflight[s].user].tokens)
                /\ Authn(x) = inflight[s].user

\* Two logins of one user, in flight at the same time, have both been
\* answered 200, with different tokens
C20_Witness ==
    \E s, o \in Slots :
        /\ s # o
        /\ C20_Issued(s) /\ C20_Issued(o)
        /\ inflight[s].req.route = "POST /users/login"
        /\ inflight[o].req.route = "POST /users/login"
        /\ inflight[s].overlap /\ inflight[o].overlap
        /\ inflight[s].user = inflight[o].user
        /\ inflight[s].resp.body.newToken # inflight[o].resp.body.newToken

(* ---- C21 ---- *)
\* Slot s has just answered a POST /users/logout with success
C21_LogoutAnswered(s) ==
    /\ inflight[s].pc = "authed"
    /\ inflight'[s].pc = "done"
    /\ inflight[s].req.route = "POST /users/logout"
    /\ inflight'[s].resp.status = 200

\* C21 (as claimed): once POST /users/logout has answered with success for a
\* token, the token never authenticates again, whatever logins, PATCH
\* /users/me and avatar requests of the same user were in flight with the
\* logout and save the record after it. In these behaviours a token handed
\* out stops authenticating only through a successful logout, so the claim
\* is: the token does not authenticate when the logout answers, and a token
\* handed out that does not authenticate does not authenticate after any
\* step.
C21_LoggedOutStaysOut ==
    [][/\ \A s \in Slots :
            C21_LogoutAnswered(s) => AuthnOn(users', inflight[s].token) = 0
       /\ \A t \in issued : Authn(t) = 0 => AuthnOn(users', t) = 0
      ]_vars

\* What holds of a logged-out token: no save of a request that loaded the
\* record before the logout brings it back; it authenticates again only when
\* a login that read the record after the logout is answered with success
\* and returns the identical string
C21_OnlyReissueRestores ==
    [][/\ \A s \in Slots :
            C21_LogoutAnswered(s) => AuthnOn(users', inflight[s].token) = 0
       /\ \A t \in issued :
            (Authn(t) = 0 /\ AuthnOn(users', t) # 0)
            => \E s \in Slots :
                  /\ inflight[s].pc = "found"
                  /\ inflight'[s].pc = "done"
                  /\ inflight'[s].resp.status = 200
                  /\ inflight'[s].resp.body.newToken = t
                  /\ inflight[s].doc.tokens = users[inflight[s].user].tokens
                  /\ t.iat = now
      ]_vars

\* A logout has answered with success while a change of the name that loaded
\* the record before it was in flight, and that change has been saved after
C21_Witness ==
    \E s, o \in Slots :
        /\ s # o
        /\ inflight[s].pc = "done" /\ inflight[o].pc = "done"
        /\ inflight[s].req.route = "POST /users/logout" /\ inflight[s].resp.status = 200
        /\ inflight[o].req.route = "PATCH /users/me" /\ inflight[o].resp.status = 200
        /\ inflight[s].overlap /\ inflight[o].overlap
        /\ req = inflight[o].req
        /\ users[1].name = "Bob"
        /\ Authn(inflight[s].req.header.tok) = 0

(* ---- C22 ---- *)
\* The step is a request in whose handler a store operation threw
C22_StoreFailed == req' \in FaultRequests /\ \E i \in 1..2 : StoreFails(req', i)

\* C22 (as claimed): a store failure in the handler of any route is answered
\* with a 500 response, PATCH /users/me, POST /tasks, PATCH /tasks/:id, GET
\* /tasks/:id and the avatar routes included.
C22_StoreFailureIs500 ==
    [][C22_StoreFailed => resp'.status = 500]_vars

\* What holds of a store failure in a handler: nothing is tried again (the
\* store keeps what the operations before the failure wrote and nothing
\* else), and the answer is the one of the route's catch block, a 500 in
\* logout, logoutAll, DELETE /users/me, DELETE /tasks/:id and GET /tasks,
\* a 400 in registration, login, both PATCH routes and POST /tasks, a 404 in
\* GET /tasks/:id, and never a 500 from the avatar upload
C22_CatchBlockAnswers ==
    [][C22_StoreFailed =>
          /\ issued' = issued /\ taskCount' = taskCount
          /\ DOMAIN tasks' \subseteq DOMAIN tasks
          /\ \A u \in DOMAIN users : u \in DOMAIN users' /\ users'[u] = users[u]
          /\ req'.route \in {"POST /users/logout", "POST /users/logoutAll", "DELETE /users/me",
                             "DELETE /tasks/:id", "GET /tasks"} => resp'.status = 500
          /\ req'.route \in {"POST /users", "POST /users/login", "PATCH /users/me",
                             "POST /tasks", "PATCH /tasks/:id"} => resp'.status = 400
          /\ req'.route = "GET /tasks/:id" => resp'.status = 404
          /\ req'.route = "POST /users/me/avatar" => resp'.status \in {0, 400}
          /\ req'.route = "DELETE /users/me/avatar" => resp'.status \in {0, 500}
      ]_vars

(* ---- C23 ---- *)
\* C23: a task created by a successful POST /tasks is owned by the caller
\* the middleware authenticated, in the store and in the response, whatever
\* owner the body names; and no request changes the owner of a stored task
\* (PATCH /tasks/:id by its owner or by anyone else included).
C23_OwnerIsCallerAndFixed ==
    [][/\ (RequestStep /\ req'.route = "POST /tasks" /\ resp'.status = 201)
            => LET id == resp'.body.task._id
                   caller == Authn(req'.header.tok)
               IN /\ caller # 0
                  /\ id \in DOMAIN tasks' \ DOMAIN tasks
                  /\ tasks'[id].owner = caller
                  /\ resp'.body.task.owner = caller
       /\ \A t \in DOMAIN tasks \cap DOMAIN tasks' : tasks'[t].owner = tasks[t].owner
      ]_vars

\* A POST /tasks whose body names another user as owner has been answered
\* 201, and the stored task is owned by the caller; an earlier task is still
\* owned by its creator
C23_Witness ==
    /\ req.route = "POST /tasks"
    /\ resp.status = 201
    /\ "owner" \in req.body.keys
    /\ req.body.owner # Authn(req.header.tok)
    /\ tasks[resp.body.task._id].owner = Authn(req.header.tok)
    /\ \E t \in DOMAIN tasks : tasks[t].owner # Authn(req.header.tok)

(* ---- C24 ---- *)
\* C24: whenever the middleware lets a request through, the user it attaches
\* is the one whose id the token embeds, and that user's stored token set
\* holds the token; the handler then acts on that user and on no other (GET
\* /users/me returns it, DELETE /users/me removes it, logout and logoutAll
\* change its record only). No token a client can present authenticates as a
\* user other than the one it names, after any registrations, logins,
\* logouts and deletions.
C24_ActsAsTokenUser ==
    [][/\ \A t \in ClientTokens : Authn(t) \in {0, t.uid}
       /\ (RequestStep /\ req'.route \in ProtectedRoutes /\ resp'.handled)
            => LET t == req'.header.tok
                   u == t.uid
               IN /\ Authn(t) = u
                  /\ u \in DOMAIN users
                  /\ t \in Range(users[u].tokens)
                  /\ \A v \in DOMAIN users \ {u} : v \in DOMAIN users' /\ users'[v] = users[v]
                  /\ req'.route = "GET /users/me" => resp'.body.user._id = u
                  /\ req'.route = "DELETE /users/me"
                        => resp'.body.user._id = u /\ u \notin DOMAIN users'
                  /\ req'.route \in {"POST /users/logout", "POST /users/logoutAll"}
                        => u \in DOMAIN users'
      ]_vars

\* Two users are registered and hold tokens, and GET /users/me with the
\* token of the second has returned the second
C24_Witness ==
    /\ req.route = "GET /users/me"
    /\ resp.handled
    /\ req.header.tok.uid = 2
    /\ resp.body.user._id = 2
    /\ 1 \in DOMAIN users
    /\ users[1].tokens # << >>
    /\ users[1].email # users[2].email

(* ---- C25 ---- *)
\* C25 (as claimed): no handler calls res.send more than once for a request;
\* in particular GET /tasks/:id, when no task matches the id and the owner,
\* sends the 404 and does not try to send again.
C25_OneSendPerRequest == resp.sends <= 1

\* What holds: every other answer is sent once, and the only request with
\* further sends is the GET /tasks/:id that found no task, whose client gets
\* the 404
C25_OneSendElsewhere ==
    resp.sends > 1 => (req.route = "GET /tasks/:id" /\ resp.status = 404 /\ resp.handled)

(* ---- C26 ---- *)
\* The step is a PATCH /users/me that changed the password
C26_PasswordPatched ==
    /\ req'.route = "PATCH /users/me"
    /\ resp'.status = 200
    /\ "password" \in req'.body.keys

\* C26: a request that saves the user record without changing its password
\* (login, logout, logoutAll, avatar upload or deletion, PATCH /users/me of
\* name, email or age) leaves the stored password hash as it was, a single
\* bcrypt hash, so the password that matched before matches after and a
\* login with the stored email and that password is answered 200; and PATCH
\* /users/me leaves the token set as it was, also when it changes the
\* password.
C26_SavesKeepPasswordAndTokens ==
    [][RequestStep =>
          \A u \in DOMAIN users :
              /\ u \in DOMAIN users'
              /\ users'[u].password.hashes = 1
              /\ ~C26_PasswordPatched
                    => /\ users'[u].password = users[u].password
                       /\ \A p \in Passwords :
                            BcryptCompare(p, users'[u].password)
                                <=> BcryptCompare(p, users[u].password)
              /\ req'.route = "PATCH /users/me" => users'[u].tokens = users[u].tokens
              /\ (/\ req'.route = "POST /users/login"
                  /\ req'.body.email = users[u].email
                  /\ users[u].password = BcryptHash(Plain(req'.body.password)))
                    => resp'.status = 200
      ]_vars

\* A login with the password of the registration has been answered 200 after
\* the name was changed, an avatar was uploaded and the token of the
\* registration was logged out
C26_Witness ==
    /\ req.route = "POST /users/login"
    /\ resp.status = 200
    /\ req.body.password = "hunter22"
    /\ users[1].name = "Bob"
    /\ users[1].age = 30
    /\ users[1].avatar = 1
    /\ now = 1
    /\ users[1].tokens = <<resp.body.newToken>>
    /\ users[1].password = BcryptHash(Plain("hunter22"))

====
